---- MODULE Spec2Model ----
(***************************************************************************)
(* life_state: actors, the action catalog, the calendar scheduler, the     *)
(* tick engine and the simulator's driver loops.                           *)
(*                                                                         *)
(* Units.  The program keeps resources as floats; the model keeps them as  *)
(* integers: hunger, fatigue, energy and battery in tenths (100.0 is 1000),*)
(* mood in hundredths (2.0 is 200, -1.8 is -180), cash in whole dollars,   *)
(* instants in minutes since midnight of day 0.                            *)
(***************************************************************************)
EXTENDS Integers, Sequences, FiniteSets, TLC

\* ------------------------------------------------------------------ bounds

\* Ticks a driver loop makes in one behaviour.
MaxTicks == 4

\* Operations that branch in one behaviour: driver ticks in which an actor
\* decides, and direct calls.
MaxOps == 2

\* ------------------------------------------------------------------ states.py

CoreStates ==
    {"Sleeping", "Waking_Up", "Idle", "Transitioning",
     "Driving", "Walking", "Focused_Work", "Eating"}

ExtendedStates ==
    {"Commuting", "Socialising", "Leisure", "Shopping",
     "Exercising", "In_Meeting", "TimeJumping"}

State ==
    CoreStates \cup ExtendedStates

is_core_state(state) ==
    state \in CoreStates

\* can_transition reduced to its test of the target.
can_transition_core_target(current_state, new_state) ==
    is_core_state(new_state)

\* can_transition reads only the actor's current state.
can_transition(current_state, new_state) ==
    IF new_state \in ExtendedStates THEN FALSE
    ELSE IF new_state \in {"Transitioning", "Sleeping"} THEN TRUE
    ELSE IF current_state = "Sleeping" THEN new_state = "Waking_Up"
    ELSE IF current_state = "Waking_Up" THEN new_state \in {"Idle", "Eating"}
    ELSE IF current_state = "Idle"
         THEN new_state \in {"Driving", "Walking", "Focused_Work", "Eating", "Transitioning"}
    ELSE IF current_state = "Transitioning" THEN new_state \notin ExtendedStates
    ELSE IF current_state \in {"Driving", "Walking"}
         THEN new_state \in {"Idle", "Transitioning"}
    ELSE IF current_state = "Focused_Work"
         THEN new_state \in {"Idle", "Transitioning", "Eating"}
    ELSE IF current_state = "Eating" THEN new_state \in {"Idle", "Transitioning"}
    ELSE TRUE

\* get_state_priority: higher is more important; an extended state has none.
get_state_priority(state) ==
    IF ~is_core_state(state) THEN 0
    ELSE CASE state = "Sleeping" -> 9
           [] state = "Eating" -> 8
           [] state = "Focused_Work" -> 6
           [] state = "Transitioning" -> 5
           [] state = "Driving" -> 4
           [] state = "Walking" -> 3
           [] state = "Waking_Up" -> 2
           [] OTHER -> 1

\* on_exit_state and on_enter_state raise NotImplementedError for an extended
\* state; otherwise they return the substate they leave, given the one before.
hook_raises(state) ==
    ~is_core_state(state)

on_exit_state(substate, state) ==
    IF state = "Sleeping" THEN "just_woke_up"
    ELSE IF state = "Focused_Work" THEN "work_completed"
    ELSE IF state = "Eating" THEN "meal_finished"
    ELSE IF state \in {"Driving", "Walking"} THEN "arrived"
    ELSE substate

on_enter_state(substate, state) ==
    IF state = "Sleeping" THEN "natural_sleep"
    ELSE IF state = "Waking_Up" THEN "waking_process"
    ELSE IF state = "Idle" THEN "None"
    ELSE IF state = "Transitioning" THEN "in_transit"
    ELSE IF state \in {"Driving", "Walking"} THEN "moving"
    ELSE IF state = "Focused_Work" THEN "working"
    ELSE IF state = "Eating" THEN "consuming"
    ELSE substate

\* ------------------------------------------------------------------ models.py

HomeLocations ==
    {"home_a", "home_b", "home_c", "home_d", "home_e", "home_f",
     "home_g", "home_h", "home_i", "home_j", "home_k", "home_l"}

PublicLocations ==
    {"public_office", "public_coffee_shop", "public_restaurant", "public_mall",
     "public_gym", "public_park", "public_library", "public_cinema", "public_bar",
     "public_clinic", "public_bus", "public_grocery_store", "public_car",
     "public_walking_path"}

Locations ==
    PublicLocations \cup HomeLocations \cup {"time_machine_gateway"}

\* str.startswith("home_") over the location catalog.
startswith_home(location_id) ==
    location_id \in {l \in Locations : l \in HomeLocations}

Max(a, b) ==
    IF a >= b THEN a ELSE b

Min(a, b) ==
    IF a <= b THEN a ELSE b

\* max(lo, min(hi, v))
Clamp(lo, hi, v) ==
    Max(lo, Min(hi, v))

\* update_resources with the clamps left out.
update_resources_unclamped(actor, hunger_delta, fatigue_delta, mood_delta) ==
    [actor EXCEPT !.hunger = actor.hunger + hunger_delta,
                  !.fatigue = actor.fatigue + fatigue_delta,
                  !.mood = actor.mood + mood_delta]

\* Actor.update_resources
update_resources(actor, hunger_delta, fatigue_delta, mood_delta) ==
    [actor EXCEPT !.hunger = Clamp(0, 1000, actor.hunger + hunger_delta),
                  !.fatigue = Clamp(0, 1000, actor.fatigue + fatigue_delta),
                  !.mood = Clamp(-200, 200, actor.mood + mood_delta)]

\* get_current_time_block with a block covering its end instant too.
get_current_time_block_closed(actor, current_time) ==
    LET covering == {i \in 1..Len(actor.calendar) :
                        /\ actor.calendar[i].start_dt <= current_time
                        /\ current_time <= actor.calendar[i].end_dt}
    IN  IF covering = {} THEN 0
        ELSE CHOOSE i \in covering : \A j \in covering : i <= j

\* Actor.get_current_time_block: index of the first covering block, 0 for None.
RECURSIVE first_block_from(_, _, _)
first_block_from(calendar, current_time, i) ==
    IF i > Len(calendar) THEN 0
    ELSE IF calendar[i].start_dt <= current_time /\ current_time < calendar[i].end_dt
         THEN i
    ELSE first_block_from(calendar, current_time, i + 1)

get_current_time_block(actor, current_time) ==
    first_block_from(actor.calendar, current_time, 1)

\* WorldClock.advance_tick
advance_tick_time_only(c) ==
    [c EXCEPT !.current_time = c.current_time + c.tick_duration_minutes]

advance_tick(c) ==
    [c EXCEPT !.current_time = c.current_time + c.tick_duration_minutes,
              !.tick_count = c.tick_count + 1]

\* datetime.hour
hour_of(current_time) ==
    (current_time \div 60) % 24

\* ------------------------------------------------------------------ actions.py

\* location_req: None, or a list of location ids.
NoReq ==
    [none |-> TRUE, ids |-> {}]

Req(ids) ==
    [none |-> FALSE, ids |-> ids]

GO_TO_SLEEP ==
    [name |-> "Go to Sleep", resulting_state |-> "Sleeping",
     duration_ticks |-> 1, location_req |-> Req({"home_a", "home_b", "home_c", "home_d", "home_e", "home_f", "home_g", "home_h", "home_i", "home_j", "home_k", "home_l"}),
     next_location |-> "None",
     hunger_delta |-> 20, fatigue_delta |-> -200,
     cash_delta |-> 0, allowed_moods |-> <<-200, 200>>,
     requires_presence |-> "Self", weight |-> 20]

WAKE_UP ==
    [name |-> "Wake Up", resulting_state |-> "Waking_Up",
     duration_ticks |-> 1, location_req |-> NoReq,
     next_location |-> "None",
     hunger_delta |-> 0, fatigue_delta |-> 50,
     cash_delta |-> 0, allowed_moods |-> <<-200, 200>>,
     requires_presence |-> "Self", weight |-> 15]

STAY_IDLE ==
    [name |-> "Stay Idle", resulting_state |-> "Idle",
     duration_ticks |-> 1, location_req |-> NoReq,
     next_location |-> "None",
     hunger_delta |-> 10, fatigue_delta |-> 10,
     cash_delta |-> 0, allowed_moods |-> <<-200, 200>>,
     requires_presence |-> "Self", weight |-> 10]

\* "Start Transition" with a destination.
START_TRANSITION_to_office ==
    [name |-> "Start Transition", resulting_state |-> "Transitioning",
     duration_ticks |-> 1, location_req |-> NoReq,
     next_location |-> "public_office",
     hunger_delta |-> 0, fatigue_delta |-> 20,
     cash_delta |-> 0, allowed_moods |-> <<-200, 200>>,
     requires_presence |-> "Self", weight |-> 12]

START_TRANSITION ==
    [name |-> "Start Transition", resulting_state |-> "Transitioning",
     duration_ticks |-> 1, location_req |-> NoReq,
     next_location |-> "None",
     hunger_delta |-> 0, fatigue_delta |-> 20,
     cash_delta |-> 0, allowed_moods |-> <<-200, 200>>,
     requires_presence |-> "Self", weight |-> 12]

DRIVE_TO_OFFICE ==
    [name |-> "Drive to Office", resulting_state |-> "Driving",
     duration_ticks |-> 2, location_req |-> NoReq,
     next_location |-> "public_office",
     hunger_delta |-> 0, fatigue_delta |-> 30,
     cash_delta |-> -5, allowed_moods |-> <<-200, 200>>,
     requires_presence |-> "Self", weight |-> 15]

\* "Drive Home" with a home as its destination.
DRIVE_HOME_to_home_a ==
    [name |-> "Drive Home", resulting_state |-> "Driving",
     duration_ticks |-> 2, location_req |-> Req({"public_office", "public_coffee_shop", "public_restaurant", "public_mall"}),
     next_location |-> "home_a",
     hunger_delta |-> 0, fatigue_delta |-> 30,
     cash_delta |-> -5, allowed_moods |-> <<-200, 200>>,
     requires_presence |-> "Self", weight |-> 18]

DRIVE_HOME ==
    [name |-> "Drive Home", resulting_state |-> "Driving",
     duration_ticks |-> 2, location_req |-> Req({"public_office", "public_coffee_shop", "public_restaurant", "public_mall"}),
     next_location |-> "None",
     hunger_delta |-> 0, fatigue_delta |-> 30,
     cash_delta |-> -5, allowed_moods |-> <<-200, 200>>,
     requires_presence |-> "Self", weight |-> 18]

WALK_TO_PARK ==
    [name |-> "Walk to Park", resulting_state |-> "Walking",
     duration_ticks |-> 3, location_req |-> NoReq,
     next_location |-> "public_park",
     hunger_delta |-> 30, fatigue_delta |-> 50,
     cash_delta |-> 0, allowed_moods |-> <<-200, 200>>,
     requires_presence |-> "Self", weight |-> 12]

WALK_TO_COFFEE_SHOP ==
    [name |-> "Walk to Coffee Shop", resulting_state |-> "Walking",
     duration_ticks |-> 2, location_req |-> NoReq,
     next_location |-> "public_coffee_shop",
     hunger_delta |-> 20, fatigue_delta |-> 40,
     cash_delta |-> 0, allowed_moods |-> <<-200, 200>>,
     requires_presence |-> "Self", weight |-> 13]

START_WORK ==
    [name |-> "Start Focused Work", resulting_state |-> "Focused_Work",
     duration_ticks |-> 4, location_req |-> Req({"public_office", "home_a", "home_b", "home_c", "home_d", "home_e", "home_f"}),
     next_location |-> "None",
     hunger_delta |-> 60, fatigue_delta |-> 80,
     cash_delta |-> 25, allowed_moods |-> <<-100, 200>>,
     requires_presence |-> "Self", weight |-> 18]

EAT_MEAL ==
    [name |-> "Eat a Meal", resulting_state |-> "Eating",
     duration_ticks |-> 2, location_req |-> Req({"public_restaurant", "public_coffee_shop", "home_a", "home_b", "home_c", "home_d", "home_e", "home_f", "home_g", "home_h", "home_i", "home_j", "home_k", "home_l"}),
     next_location |-> "None",
     hunger_delta |-> -250, fatigue_delta |-> 20,
     cash_delta |-> -15, allowed_moods |-> <<-200, 200>>,
     requires_presence |-> "Self", weight |-> 25]

GRAB_SNACK ==
    [name |-> "Grab a Snack", resulting_state |-> "Eating",
     duration_ticks |-> 1, location_req |-> NoReq,
     next_location |-> "None",
     hunger_delta |-> -100, fatigue_delta |-> 0,
     cash_delta |-> -5, allowed_moods |-> <<-200, 200>>,
     requires_presence |-> "Self", weight |-> 15]

COMMUTE_BY_CAR ==
    [name |-> "Commute by Car", resulting_state |-> "Commuting",
     duration_ticks |-> 3, location_req |-> Req({"home_a", "home_b", "home_c", "home_d", "home_e", "home_f"}),
     next_location |-> "public_office",
     hunger_delta |-> 0, fatigue_delta |-> 40,
     cash_delta |-> -8, allowed_moods |-> <<-200, 200>>,
     requires_presence |-> "Self", weight |-> 20]

COMMUTE_WALKING ==
    [name |-> "Commute Walking", resulting_state |-> "Commuting",
     duration_ticks |-> 6, location_req |-> Req({"home_a", "home_b", "home_c", "home_d", "home_e", "home_f"}),
     next_location |-> "public_office",
     hunger_delta |-> 80, fatigue_delta |-> 120,
     cash_delta |-> 0, allowed_moods |-> <<-200, 200>>,
     requires_presence |-> "Self", weight |-> 10]

TAKE_BUS ==
    [name |-> "Take Bus", resulting_state |-> "Commuting",
     duration_ticks |-> 4, location_req |-> Req({"public_bus"}),
     next_location |-> "public_office",
     hunger_delta |-> 0, fatigue_delta |-> 20,
     cash_delta |-> -3, allowed_moods |-> <<-200, 200>>,
     requires_presence |-> "Self", weight |-> 13]

RETURN_HOME_CAR ==
    [name |-> "Return Home by Car", resulting_state |-> "Commuting",
     duration_ticks |-> 3, location_req |-> Req({"public_office"}),
     next_location |-> "None",
     hunger_delta |-> 0, fatigue_delta |-> 40,
     cash_delta |-> -8, allowed_moods |-> <<-200, 200>>,
     requires_presence |-> "Self", weight |-> 22]

MEET_COLLEAGUE ==
    [name |-> "Meet with Colleague", resulting_state |-> "Socialising",
     duration_ticks |-> 3, location_req |-> Req({"public_office", "public_coffee_shop"}),
     next_location |-> "None",
     hunger_delta |-> 20, fatigue_delta |-> 30,
     cash_delta |-> 0, allowed_moods |-> <<-100, 200>>,
     requires_presence |-> "Any", weight |-> 15]

CHAT_WITH_FRIEND ==
    [name |-> "Chat with Friend", resulting_state |-> "Socialising",
     duration_ticks |-> 2, location_req |-> Req({"public_coffee_shop", "public_bar", "public_park"}),
     next_location |-> "None",
     hunger_delta |-> 0, fatigue_delta |-> 10,
     cash_delta |-> 0, allowed_moods |-> <<0, 200>>,
     requires_presence |-> "Any", weight |-> 18]

ATTEND_SOCIAL_EVENT ==
    [name |-> "Attend Social Event", resulting_state |-> "Socialising",
     duration_ticks |-> 4, location_req |-> Req({"public_bar", "public_restaurant"}),
     next_location |-> "None",
     hunger_delta |-> 30, fatigue_delta |-> 60,
     cash_delta |-> -20, allowed_moods |-> <<0, 200>>,
     requires_presence |-> "Any", weight |-> 12]

NETWORK_EVENT ==
    [name |-> "Attend Networking Event", resulting_state |-> "Socialising",
     duration_ticks |-> 3, location_req |-> Req({"public_office", "public_restaurant"}),
     next_location |-> "None",
     hunger_delta |-> 20, fatigue_delta |-> 50,
     cash_delta |-> -10, allowed_moods |-> <<-100, 200>>,
     requires_presence |-> "Any", weight |-> 10]

GYM_WORKOUT ==
    [name |-> "Gym Workout", resulting_state |-> "Exercising",
     duration_ticks |-> 4, location_req |-> Req({"public_gym"}),
     next_location |-> "None",
     hunger_delta |-> 120, fatigue_delta |-> 150,
     cash_delta |-> -12, allowed_moods |-> <<-100, 200>>,
     requires_presence |-> "Self", weight |-> 13]

JOG_IN_PARK ==
    [name |-> "Jog in Park", resulting_state |-> "Exercising",
     duration_ticks |-> 3, location_req |-> Req({"public_park"}),
     next_location |-> "None",
     hunger_delta |-> 80, fatigue_delta |-> 100,
     cash_delta |-> 0, allowed_moods |-> <<0, 200>>,
     requires_presence |-> "Self", weight |-> 15]

HOME_EXERCISE ==
    [name |-> "Exercise at Home", resulting_state |-> "Exercising",
     duration_ticks |-> 2, location_req |-> Req({"home_a", "home_b", "home_c", "home_d", "home_e", "home_f", "home_g", "home_h", "home_i", "home_j", "home_k", "home_l"}),
     next_location |-> "None",
     hunger_delta |-> 60, fatigue_delta |-> 80,
     cash_delta |-> 0, allowed_moods |-> <<-200, 200>>,
     requires_presence |-> "Self", weight |-> 12]

WALK_FOR_EXERCISE ==
    [name |-> "Walk for Exercise", resulting_state |-> "Exercising",
     duration_ticks |-> 2, location_req |-> Req({"public_walking_path", "public_park"}),
     next_location |-> "None",
     hunger_delta |-> 40, fatigue_delta |-> 60,
     cash_delta |-> 0, allowed_moods |-> <<-200, 200>>,
     requires_presence |-> "Self", weight |-> 14]

WATCH_MOVIE ==
    [name |-> "Watch Movie", resulting_state |-> "Leisure",
     duration_ticks |-> 6, location_req |-> Req({"public_cinema", "home_a", "home_b", "home_c", "home_d", "home_e", "home_f"}),
     next_location |-> "None",
     hunger_delta |-> 30, fatigue_delta |-> 20,
     cash_delta |-> -15, allowed_moods |-> <<-200, 200>>,
     requires_presence |-> "Self", weight |-> 14]

READ_BOOK ==
    [name |-> "Read Book", resulting_state |-> "Leisure",
     duration_ticks |-> 3, location_req |-> Req({"public_library", "home_a", "home_b", "home_c", "home_d", "home_e", "home_f"}),
     next_location |-> "None",
     hunger_delta |-> 10, fatigue_delta |-> 10,
     cash_delta |-> 0, allowed_moods |-> <<-100, 200>>,
     requires_presence |-> "Self", weight |-> 13]

BROWSE_LIBRARY ==
    [name |-> "Browse Library", resulting_state |-> "Leisure",
     duration_ticks |-> 2, location_req |-> Req({"public_library"}),
     next_location |-> "None",
     hunger_delta |-> 10, fatigue_delta |-> 20,
     cash_delta |-> 0, allowed_moods |-> <<-200, 200>>,
     requires_presence |-> "Self", weight |-> 11]

RELAX_AT_HOME ==
    [name |-> "Relax at Home", resulting_state |-> "Leisure",
     duration_ticks |-> 2, location_req |-> Req({"home_a", "home_b", "home_c", "home_d", "home_e", "home_f", "home_g", "home_h", "home_i", "home_j", "home_k", "home_l"}),
     next_location |-> "None",
     hunger_delta |-> 20, fatigue_delta |-> -30,
     cash_delta |-> 0, allowed_moods |-> <<-200, 200>>,
     requires_presence |-> "Self", weight |-> 16]

ENJOY_PARK ==
    [name |-> "Enjoy Time in Park", resulting_state |-> "Leisure",
     duration_ticks |-> 2, location_req |-> Req({"public_park"}),
     next_location |-> "None",
     hunger_delta |-> 20, fatigue_delta |-> 10,
     cash_delta |-> 0, allowed_moods |-> <<-100, 200>>,
     requires_presence |-> "Self", weight |-> 13]

GROCERY_SHOPPING ==
    [name |-> "Grocery Shopping", resulting_state |-> "Shopping",
     duration_ticks |-> 3, location_req |-> Req({"public_grocery_store"}),
     next_location |-> "None",
     hunger_delta |-> 30, fatigue_delta |-> 50,
     cash_delta |-> -40, allowed_moods |-> <<-200, 200>>,
     requires_presence |-> "Self", weight |-> 15]

MALL_SHOPPING ==
    [name |-> "Mall Shopping", resulting_state |-> "Shopping",
     duration_ticks |-> 4, location_req |-> Req({"public_mall"}),
     next_location |-> "None",
     hunger_delta |-> 40, fatigue_delta |-> 60,
     cash_delta |-> -60, allowed_moods |-> <<0, 200>>,
     requires_presence |-> "Self", weight |-> 12]

QUICK_SHOPPING ==
    [name |-> "Quick Shopping", resulting_state |-> "Shopping",
     duration_ticks |-> 2, location_req |-> Req({"public_grocery_store", "public_mall"}),
     next_location |-> "None",
     hunger_delta |-> 20, fatigue_delta |-> 30,
     cash_delta |-> -25, allowed_moods |-> <<-200, 200>>,
     requires_presence |-> "Self", weight |-> 14]

WINDOW_SHOPPING ==
    [name |-> "Window Shopping", resulting_state |-> "Shopping",
     duration_ticks |-> 2, location_req |-> Req({"public_mall"}),
     next_location |-> "None",
     hunger_delta |-> 20, fatigue_delta |-> 40,
     cash_delta |-> -5, allowed_moods |-> <<-200, 200>>,
     requires_presence |-> "Self", weight |-> 10]

FORMAL_MEETING ==
    [name |-> "Attend Formal Meeting", resulting_state |-> "In_Meeting",
     duration_ticks |-> 3, location_req |-> Req({"public_office"}),
     next_location |-> "None",
     hunger_delta |-> 30, fatigue_delta |-> 40,
     cash_delta |-> 0, allowed_moods |-> <<-100, 200>>,
     requires_presence |-> "Any", weight |-> 18]

TEAM_MEETING ==
    [name |-> "Team Meeting", resulting_state |-> "In_Meeting",
     duration_ticks |-> 2, location_req |-> Req({"public_office"}),
     next_location |-> "None",
     hunger_delta |-> 20, fatigue_delta |-> 30,
     cash_delta |-> 0, allowed_moods |-> <<-200, 200>>,
     requires_presence |-> "Any", weight |-> 16]

CLIENT_MEETING ==
    [name |-> "Client Meeting", resulting_state |-> "In_Meeting",
     duration_ticks |-> 4, location_req |-> Req({"public_office", "public_restaurant"}),
     next_location |-> "None",
     hunger_delta |-> 40, fatigue_delta |-> 60,
     cash_delta |-> -30, allowed_moods |-> <<0, 200>>,
     requires_presence |-> "Specific", weight |-> 14]

VIRTUAL_MEETING ==
    [name |-> "Virtual Meeting", resulting_state |-> "In_Meeting",
     duration_ticks |-> 2, location_req |-> Req({"home_a", "home_b", "home_c", "home_d", "home_e", "home_f", "public_office"}),
     next_location |-> "None",
     hunger_delta |-> 20, fatigue_delta |-> 30,
     cash_delta |-> 0, allowed_moods |-> <<-200, 200>>,
     requires_presence |-> "Self", weight |-> 15]

GO_TO_COFFEE_SHOP ==
    [name |-> "Go to Coffee Shop", resulting_state |-> "Transitioning",
     duration_ticks |-> 1, location_req |-> NoReq,
     next_location |-> "public_coffee_shop",
     hunger_delta |-> 0, fatigue_delta |-> 20,
     cash_delta |-> 0, allowed_moods |-> <<-200, 200>>,
     requires_presence |-> "Self", weight |-> 13]

GO_TO_RESTAURANT ==
    [name |-> "Go to Restaurant", resulting_state |-> "Transitioning",
     duration_ticks |-> 1, location_req |-> NoReq,
     next_location |-> "public_restaurant",
     hunger_delta |-> 0, fatigue_delta |-> 20,
     cash_delta |-> 0, allowed_moods |-> <<-200, 200>>,
     requires_presence |-> "Self", weight |-> 12]

GO_TO_MALL ==
    [name |-> "Go to Mall", resulting_state |-> "Transitioning",
     duration_ticks |-> 2, location_req |-> NoReq,
     next_location |-> "public_mall",
     hunger_delta |-> 0, fatigue_delta |-> 30,
     cash_delta |-> 0, allowed_moods |-> <<-200, 200>>,
     requires_presence |-> "Self", weight |-> 11]

GO_TO_GYM ==
    [name |-> "Go to Gym", resulting_state |-> "Transitioning",
     duration_ticks |-> 1, location_req |-> NoReq,
     next_location |-> "public_gym",
     hunger_delta |-> 0, fatigue_delta |-> 20,
     cash_delta |-> 0, allowed_moods |-> <<-200, 200>>,
     requires_presence |-> "Self", weight |-> 12]

GO_TO_LIBRARY ==
    [name |-> "Go to Library", resulting_state |-> "Transitioning",
     duration_ticks |-> 1, location_req |-> NoReq,
     next_location |-> "public_library",
     hunger_delta |-> 0, fatigue_delta |-> 20,
     cash_delta |-> 0, allowed_moods |-> <<-200, 200>>,
     requires_presence |-> "Self", weight |-> 10]

GO_TO_CLINIC ==
    [name |-> "Go to Clinic", resulting_state |-> "Transitioning",
     duration_ticks |-> 2, location_req |-> NoReq,
     next_location |-> "public_clinic",
     hunger_delta |-> 0, fatigue_delta |-> 30,
     cash_delta |-> 0, allowed_moods |-> <<-200, 100>>,
     requires_presence |-> "Self", weight |-> 8]

GO_TO_GATEWAY ==
    [name |-> "Go to Time Machine Gateway", resulting_state |-> "Transitioning",
     duration_ticks |-> 3, location_req |-> NoReq,
     next_location |-> "time_machine_gateway",
     hunger_delta |-> 0, fatigue_delta |-> 50,
     cash_delta |-> 0, allowed_moods |-> <<0, 200>>,
     requires_presence |-> "Self", weight |-> 5]

TIME_JUMP ==
    [name |-> "Perform Time Jump", resulting_state |-> "TimeJumping",
     duration_ticks |-> 1, location_req |-> Req({"time_machine_gateway"}),
     next_location |-> "None",
     hunger_delta |-> 100, fatigue_delta |-> 200,
     cash_delta |-> 0, allowed_moods |-> <<0, 200>>,
     requires_presence |-> "Self", weight |-> 10]

CORE_ACTIONS ==
    << GO_TO_SLEEP, WAKE_UP, STAY_IDLE, START_TRANSITION,
       DRIVE_TO_OFFICE, DRIVE_HOME, WALK_TO_PARK, WALK_TO_COFFEE_SHOP,
       START_WORK, EAT_MEAL, GRAB_SNACK >>

EXTENDED_ACTIONS ==
    << COMMUTE_BY_CAR, COMMUTE_WALKING, TAKE_BUS, RETURN_HOME_CAR,
       MEET_COLLEAGUE, CHAT_WITH_FRIEND, ATTEND_SOCIAL_EVENT, NETWORK_EVENT,
       GYM_WORKOUT, JOG_IN_PARK, HOME_EXERCISE, WALK_FOR_EXERCISE,
       WATCH_MOVIE, READ_BOOK, BROWSE_LIBRARY, RELAX_AT_HOME,
       ENJOY_PARK, GROCERY_SHOPPING, MALL_SHOPPING, QUICK_SHOPPING,
       WINDOW_SHOPPING, FORMAL_MEETING, TEAM_MEETING, CLIENT_MEETING,
       VIRTUAL_MEETING, GO_TO_COFFEE_SHOP, GO_TO_RESTAURANT, GO_TO_MALL,
       GO_TO_GYM, GO_TO_LIBRARY, GO_TO_CLINIC, GO_TO_GATEWAY,
       TIME_JUMP >>

ALL_ACTIONS ==
    CORE_ACTIONS \o EXTENDED_ACTIONS

\* The list a registry keeps for one resulting state, in catalog order.
by_state(pool, state) ==
    SelectSeq(pool, LAMBDA a : a.resulting_state = state)

CORE_ACTIONS_BY_STATE(state) ==
    by_state(CORE_ACTIONS, state)

ACTIONS_BY_STATE(state) ==
    by_state(ALL_ACTIONS, state)

\* name.lower().replace(' ', '_').replace('-', '_') of each catalog name.
action_name_clean(name) ==
    CASE name = "Go to Sleep" -> "go_to_sleep"
      [] name = "Wake Up" -> "wake_up"
      [] name = "Stay Idle" -> "stay_idle"
      [] name = "Start Transition" -> "start_transition"
      [] name = "Drive to Office" -> "drive_to_office"
      [] name = "Drive Home" -> "drive_home"
      [] name = "Walk to Park" -> "walk_to_park"
      [] name = "Walk to Coffee Shop" -> "walk_to_coffee_shop"
      [] name = "Start Focused Work" -> "start_focused_work"
      [] name = "Eat a Meal" -> "eat_a_meal"
      [] name = "Grab a Snack" -> "grab_a_snack"
      [] name = "Commute by Car" -> "commute_by_car"
      [] name = "Commute Walking" -> "commute_walking"
      [] name = "Take Bus" -> "take_bus"
      [] name = "Return Home by Car" -> "return_home_by_car"
      [] name = "Meet with Colleague" -> "meet_with_colleague"
      [] name = "Chat with Friend" -> "chat_with_friend"
      [] name = "Attend Social Event" -> "attend_social_event"
      [] name = "Attend Networking Event" -> "attend_networking_event"
      [] name = "Gym Workout" -> "gym_workout"
      [] name = "Jog in Park" -> "jog_in_park"
      [] name = "Exercise at Home" -> "exercise_at_home"
      [] name = "Walk for Exercise" -> "walk_for_exercise"
      [] name = "Watch Movie" -> "watch_movie"
      [] name = "Read Book" -> "read_book"
      [] name = "Browse Library" -> "browse_library"
      [] name = "Relax at Home" -> "relax_at_home"
      [] name = "Enjoy Time in Park" -> "enjoy_time_in_park"
      [] name = "Grocery Shopping" -> "grocery_shopping"
      [] name = "Mall Shopping" -> "mall_shopping"
      [] name = "Quick Shopping" -> "quick_shopping"
      [] name = "Window Shopping" -> "window_shopping"
      [] name = "Attend Formal Meeting" -> "attend_formal_meeting"
      [] name = "Team Meeting" -> "team_meeting"
      [] name = "Client Meeting" -> "client_meeting"
      [] name = "Virtual Meeting" -> "virtual_meeting"
      [] name = "Go to Coffee Shop" -> "go_to_coffee_shop"
      [] name = "Go to Restaurant" -> "go_to_restaurant"
      [] name = "Go to Mall" -> "go_to_mall"
      [] name = "Go to Gym" -> "go_to_gym"
      [] name = "Go to Library" -> "go_to_library"
      [] name = "Go to Clinic" -> "go_to_clinic"
      [] name = "Go to Time Machine Gateway" -> "go_to_time_machine_gateway"
      [] name = "Perform Time Jump" -> "perform_time_jump"

\* The four checks get_available_actions and lookup_forced share, in the order
\* the loops make them.
location_ok(action, actor) ==
    action.location_req.none \/ actor.location_id \in action.location_req.ids

mood_ok(action, actor) ==
    action.allowed_moods[1] <= actor.mood /\ actor.mood <= action.allowed_moods[2]

bounds_ok(action, actor) ==
    /\ 0 <= actor.hunger + action.hunger_delta
    /\ actor.hunger + action.hunger_delta <= 1000
    /\ 0 <= actor.fatigue + action.fatigue_delta
    /\ actor.fatigue + action.fatigue_delta <= 1000

\* The cash check left out.
cash_unchecked(action, actor) ==
    TRUE

cash_ok(action, actor) ==
    ~(actor.cash + action.cash_delta < 0)

\* One pass of the loop of get_available_actions: FALSE where the body continues.
available_keeps(action, actor, core_only) ==
    IF ~location_ok(action, actor) THEN FALSE
    ELSE IF ~mood_ok(action, actor) THEN FALSE
    ELSE IF ~bounds_ok(action, actor) THEN FALSE
    ELSE IF ~cash_ok(action, actor) THEN FALSE
    ELSE IF core_only /\ ~is_core_state(action.resulting_state) THEN FALSE
    ELSE TRUE

RECURSIVE available_from(_, _, _, _)
available_from(pool, i, actor, core_only) ==
    IF i > Len(pool) THEN << >>
    ELSE IF available_keeps(pool[i], actor, core_only)
         THEN << pool[i] >> \o available_from(pool, i + 1, actor, core_only)
    ELSE available_from(pool, i + 1, actor, core_only)

get_available_actions(actor, core_only) ==
    available_from(IF core_only THEN CORE_ACTIONS ELSE ALL_ACTIONS, 1, actor, core_only)

\* One pass of the loop of lookup_forced.
forced_keeps(action, actor) ==
    IF ~location_ok(action, actor) THEN FALSE
    ELSE IF ~mood_ok(action, actor) THEN FALSE
    ELSE IF ~bounds_ok(action, actor) THEN FALSE
    ELSE IF ~cash_ok(action, actor) THEN FALSE
    ELSE TRUE

RECURSIVE forced_from(_, _, _)
forced_from(possible_actions, i, actor) ==
    IF i > Len(possible_actions) THEN 0
    ELSE IF forced_keeps(possible_actions[i], actor) THEN i
    ELSE forced_from(possible_actions, i + 1, actor)

\* lookup_forced: << action >> for the action found, << >> for None.
\* lookup_forced searching the full catalog whatever core_only says.
lookup_forced_full(target_state, actor, core_only) ==
    LET possible_actions == ACTIONS_BY_STATE(target_state)
        i == forced_from(possible_actions, 1, actor)
    IN  IF i = 0 THEN << >> ELSE << possible_actions[i] >>

lookup_forced(target_state, actor, core_only) ==
    LET possible_actions == IF core_only THEN CORE_ACTIONS_BY_STATE(target_state)
                            ELSE ACTIONS_BY_STATE(target_state)
        i == forced_from(possible_actions, 1, actor)
    IN  IF i = 0 THEN << >> ELSE << possible_actions[i] >>

\* apply_action runs six statements inside one try block; the except clause
\* returns False and restores nothing.  raise_at = 0: no statement raises;
\* raise_at = k: statement k raises, the statements before it have run.
apply_state(action, actor) ==
    [actor EXCEPT !.state = action.resulting_state]

apply_substate(action, actor) ==
    [actor EXCEPT !.substate = "action_" \o action_name_clean(action.name)]

\* The location statement left out.
apply_location_kept(action, actor) ==
    actor

apply_location(action, actor) ==
    IF action.next_location # "None"
    THEN [actor EXCEPT !.location_id = action.next_location]
    ELSE actor

apply_resources(action, actor) ==
    update_resources(actor, action.hunger_delta, action.fatigue_delta, 0)

apply_cash(action, actor) ==
    LET new_cash == actor.cash + action.cash_delta
    IN  [actor EXCEPT !.cash = IF new_cash < 0 THEN 0 ELSE new_cash]

\* The duration set without the subtraction for the current tick.
apply_ticks_full(action, actor) ==
    [actor EXCEPT !.current_ticks_left = action.duration_ticks]

apply_ticks(action, actor) ==
    [actor EXCEPT !.current_ticks_left = Max(0, action.duration_ticks - 1)]

apply_steps(action, actor, n) ==
    LET a1 == IF n >= 1 THEN apply_state(action, actor) ELSE actor
        a2 == IF n >= 2 THEN apply_substate(action, a1) ELSE a1
        a3 == IF n >= 3 THEN apply_location(action, a2) ELSE a2
        a4 == IF n >= 4 THEN apply_resources(action, a3) ELSE a3
        a5 == IF n >= 5 THEN apply_cash(action, a4) ELSE a4
        a6 == IF n >= 6 THEN apply_ticks(action, a5) ELSE a5
    IN  a6

\* apply_action: the actor it leaves and the value it returns.
apply_action(action, actor, raise_at) ==
    IF raise_at = 0
    THEN [actor |-> apply_steps(action, actor, 6), ok |-> TRUE]
    ELSE [actor |-> apply_steps(action, actor, raise_at - 1), ok |-> FALSE]

\* ------------------------------------------------------------------ calendar_scheduler.py

\* override_state: the state returned, "None" for no override.
override_state(actor, clock) ==
    LET b == get_current_time_block(actor, clock.current_time)
        required_state == actor.calendar[b].required_state
    IN  IF b = 0 THEN "None"
        ELSE IF actor.fatigue >= 950 THEN "Idle"
        ELSE IF actor.hunger >= 900 /\ required_state \notin {"Eating", "Sleeping"}
             THEN "Idle"
        ELSE IF actor.mood <= -180 /\ required_state \in {"Socialising", "In_Meeting"}
             THEN "Idle"
        ELSE IF actor.cash <= 0 /\ required_state \in {"Shopping", "Leisure"}
             THEN "Idle"
        ELSE IF required_state = "Focused_Work"
             THEN IF actor.location_id \notin {"public_office"}
                     /\ ~startswith_home(actor.location_id)
                  THEN "Transitioning" ELSE required_state
        ELSE IF required_state = "In_Meeting"
             THEN IF actor.location_id \notin {"public_office", "public_restaurant"}
                  THEN "Transitioning" ELSE required_state
        ELSE IF required_state = "Exercising"
             THEN IF actor.location_id \notin
                        ({"public_gym", "public_park", "public_walking_path"}
                         \cup {"home_a", "home_b", "home_c", "home_d", "home_e", "home_f",
                               "home_g", "home_h", "home_i", "home_j", "home_k", "home_l"})
                  THEN "Transitioning" ELSE required_state
        ELSE IF required_state = "Shopping"
             THEN IF actor.location_id \notin {"public_mall", "public_grocery_store"}
                  THEN "Transitioning" ELSE required_state
        ELSE IF required_state = "Socialising"
             THEN IF actor.location_id \notin
                        {"public_coffee_shop", "public_restaurant", "public_bar",
                         "public_park", "public_office"}
                  THEN "Transitioning" ELSE required_state
        ELSE required_state

\* ------------------------------------------------------------------ world.py

\* load_config's default table, keyed by State.name.lower(); the .get default
\* of _update_actor_resources serves the states the table does not list.
fatigue_rate(state) ==
    CASE state = "Sleeping" -> -50
      [] state = "Waking_Up" -> 5
      [] state = "Idle" -> 2
      [] state = "Transitioning" -> 10
      [] state = "Driving" -> 15
      [] state = "Walking" -> 20
      [] state = "Focused_Work" -> 30
      [] state = "Eating" -> 5
      [] OTHER -> 5

hunger_rate(state) ==
    CASE state = "Sleeping" -> 3
      [] state = "Waking_Up" -> 5
      [] state = "Idle" -> 8
      [] state = "Transitioning" -> 10
      [] state = "Driving" -> 12
      [] state = "Walking" -> 15
      [] state = "Focused_Work" -> 18
      [] state = "Eating" -> -150
      [] OTHER -> 8

mood_modifiers(state) ==
    CASE state = "Sleeping" -> 10
      [] state = "Waking_Up" -> -10
      [] state = "Idle" -> -5
      [] state = "Transitioning" -> 0
      [] state = "Driving" -> -2
      [] state = "Walking" -> 5
      [] state = "Focused_Work" -> 2
      [] state = "Eating" -> 15
      [] OTHER -> 0

\* ------------------------------------------------------------------ tick_engine.py

_update_actor_resources(actor) ==
    LET a == update_resources(actor, hunger_rate(actor.state),
                              fatigue_rate(actor.state), mood_modifiers(actor.state))
    IN  IF a.state = "Driving" THEN [a EXCEPT !.battery = Max(0, a.battery - 20)]
        ELSE IF a.state = "Focused_Work" THEN [a EXCEPT !.energy = Max(0, a.energy - 15)]
        ELSE a

\* _handle_idle_decisions: the states the actor can be left in, over the draws
\* of random.random() and random.choice.
_handle_idle_decisions(actor) ==
    IF actor.hunger > 700 /\ can_transition(actor.state, "Eating") THEN {"Eating"}
    ELSE IF actor.fatigue > 800 /\ can_transition(actor.state, "Sleeping") THEN {"Sleeping"}
    ELSE {actor.state}
         \cup {s \in {"Focused_Work", "Eating", "Transitioning"} :
                  can_transition(actor.state, s)}

_handle_transitioning(actor) ==
    LET valid_states == {s \in {"Idle", "Driving", "Walking", "Focused_Work", "Eating"} :
                            can_transition(actor.state, s)}
    IN  IF valid_states # {} THEN valid_states ELSE {"Idle"}

\* _handle_state_logic: the states the actor can be left in.
_handle_state_logic(actor) ==
    IF actor.state = "Sleeping"
    THEN {"Sleeping"}
         \cup (IF actor.fatigue < 100 /\ can_transition(actor.state, "Waking_Up")
               THEN {"Waking_Up"} ELSE {})
    ELSE IF actor.state = "Waking_Up" THEN {"Waking_Up", "Idle"}
    ELSE IF actor.state = "Idle" THEN _handle_idle_decisions(actor)
    ELSE IF actor.state = "Transitioning" THEN _handle_transitioning(actor)
    ELSE IF actor.state \in {"Driving", "Walking"} THEN {actor.state, "Idle"}
    ELSE IF actor.state = "Focused_Work" THEN {"Focused_Work", "Idle"}
    ELSE IF actor.state = "Eating" THEN {"Eating", "Idle"}
    ELSE {actor.state}

_check_automatic_transitions(actor) ==
    IF actor.fatigue >= 950 /\ actor.state # "Sleeping"
    THEN IF can_transition(actor.state, "Sleeping")
         THEN [actor EXCEPT !.state = "Sleeping"] ELSE actor
    ELSE IF actor.hunger >= 900 /\ actor.state # "Eating"
    THEN IF can_transition(actor.state, "Eating")
         THEN [actor EXCEPT !.state = "Eating"] ELSE actor
    ELSE actor

\* The hooks _process_actor_tick runs when the state changed; a hook that
\* raises NotImplementedError ends the try block.
state_change_hooks(actor, old_state) ==
    IF actor.state = old_state THEN actor
    ELSE IF hook_raises(old_state) THEN actor
    ELSE IF hook_raises(actor.state)
         THEN [actor EXCEPT !.substate = on_exit_state(actor.substate, old_state)]
    ELSE [actor EXCEPT !.substate =
              on_enter_state(on_exit_state(actor.substate, old_state), actor.state)]

\* _process_actor_tick: the actors it can leave.
_process_actor_tick(actor) ==
    LET a1 == _update_actor_resources(actor)
    IN  {state_change_hooks(_check_automatic_transitions([a1 EXCEPT !.state = s]),
                            actor.state) : s \in _handle_state_logic(a1)}

\* ------------------------------------------------------------------ time_jump.py

\* gateway_open without its battery gate.
gateway_open_no_battery(actor, world_clock) ==
    /\ actor.location_id = "time_machine_gateway"
    /\ LET hour == hour_of(world_clock.current_time)
       IN  (6 <= hour /\ hour < 8) \/ hour >= 22
    /\ actor.mood >= 0
    /\ actor.fatigue < 800 /\ actor.hunger < 700
    /\ actor.cash >= 50
    /\ actor.energy >= 300

gateway_open(actor, world_clock) ==
    LET loc_ok == actor.location_id = "time_machine_gateway"
        hour == hour_of(world_clock.current_time)
        time_ok == (6 <= hour /\ hour < 8) \/ hour >= 22
        mood_is_ok == actor.mood >= 0
        resource_ok == actor.fatigue < 800 /\ actor.hunger < 700
        cash_is_ok == actor.cash >= 50
        energy_ok == actor.energy >= 300
        battery_ok == actor.battery >= 200
    IN  loc_ok /\ time_ok /\ mood_is_ok /\ resource_ok /\ cash_is_ok
        /\ energy_ok /\ battery_ok

\* The bundle without the adjustments for the distance and the direction.
base_time_jump_effects(time_delta) ==
    [fatigue_delta |-> 150, hunger_delta |-> 80, mood_delta |-> -50,
     energy_delta |-> -200, cash_delta |-> -50, battery_delta |-> -100]

\* calculate_time_jump_effects; time_delta is the signed displacement in
\* minutes, and hours_jumped > 24 is minutes_jumped > 24 * 60.
calculate_time_jump_effects(time_delta) ==
    LET minutes_jumped == IF time_delta < 0 THEN -time_delta ELSE time_delta
        long == minutes_jumped > 24 * 60
        week == minutes_jumped > 168 * 60
        past == time_delta < 0
    IN  [fatigue_delta |-> 150 + (IF long THEN 100 ELSE 0) + (IF week THEN 200 ELSE 0)
                              + (IF past THEN 50 ELSE 0),
         hunger_delta |-> 80,
         mood_delta |-> -50 - (IF long THEN 30 ELSE 0) - (IF week THEN 50 ELSE 0)
                            - (IF past THEN 20 ELSE 0),
         energy_delta |-> -200 - (IF week THEN 300 ELSE 0),
         cash_delta |-> -50 - (IF long THEN 25 ELSE 0) - (IF past THEN 15 ELSE 0),
         battery_delta |-> -100]

\* The jump costs without the arrival state.
apply_jump_effects_keep_state(actor, effects) ==
    LET a == update_resources(actor, effects.hunger_delta, effects.fatigue_delta,
                              effects.mood_delta)
    IN  [a EXCEPT !.energy = Max(0, Min(1000, a.energy + effects.energy_delta)),
                  !.cash = Max(0, a.cash + effects.cash_delta),
                  !.battery = Max(0, Min(1000, a.battery + effects.battery_delta))]

\* The effects fork_world applies to the clone of the jumping actor, and
\* handle_time_jump to the actor itself.
apply_jump_effects(actor, effects) ==
    LET a == update_resources(actor, effects.hunger_delta, effects.fatigue_delta,
                              effects.mood_delta)
    IN  [a EXCEPT !.energy = Max(0, Min(1000, a.energy + effects.energy_delta)),
                  !.cash = Max(0, a.cash + effects.cash_delta),
                  !.battery = Max(0, Min(1000, a.battery + effects.battery_delta)),
                  !.state = "Idle",
                  !.substate = "post_time_jump"]

\* ------------------------------------------------------------------ probability.py

\* calculate_action_probability multiplies the action's weight by factors that
\* are all strictly positive (mood_factor >= 0.97, hunger_factor and
\* fatigue_factor >= 0.8, every situational multiplier >= 0.3), so the result
\* is positive exactly when the weight is.
probability_positive(action) ==
    action.weight > 0

\* The sampling step of choose_action over the available actions, with the
\* time-jump action injected when the gateway answered True.
\* random.choices draws among the actions of positive weight; with a total of
\* zero random.choice draws among all of them.
sample_action(available_actions, inject) ==
    LET with_jump == IF inject
                        /\ \A i \in 1..Len(available_actions) :
                               available_actions[i] # TIME_JUMP
                     THEN Append(available_actions, TIME_JUMP)
                     ELSE available_actions
        positive == {i \in 1..Len(with_jump) : probability_positive(with_jump[i])}
    IN  IF Len(available_actions) = 0 THEN {<< >>}
        ELSE IF positive = {} THEN {<< with_jump[i] >> : i \in 1..Len(with_jump)}
        ELSE {<< with_jump[i] >> : i \in positive}

\* choose_action: the values it can return, << action >> or << >> for None.
choose_action(actor, clock, core_only) ==
    sample_action(get_available_actions(actor, core_only),
                  ~core_only /\ gateway_open(actor, clock))

\* gateway_open inside its try block: an exception raised while a gate is
\* evaluated is caught and the call returns False.
gateway_open_guarded(actor, world_clock, raises) ==
    IF raises THEN FALSE ELSE gateway_open(actor, world_clock)

\* Where an exception can arise inside choose_action's try block.
ChooseFaults ==
    {"none", "filter", "probability", "gateway", "sampling"}

\* choose_action with its except clause: raised tells whether an exception
\* leaves the call.  The except clause calls get_available_actions again and
\* returns its first element; an exception of the filter comes from the actor
\* it reads, so the second call raises as the first did, outside any try.  With
\* no available action the call has returned before the later steps run.  An
\* exception inside gateway_open is caught there: the gateway answers False
\* and the sampling goes on without the injection.
choose_action_guarded(actor, clock, core_only, fault) ==
    LET available_actions == get_available_actions(actor, core_only)
    IN  IF fault = "filter"
        THEN {[raised |-> TRUE, value |-> << >>]}
        ELSE IF fault = "none" \/ Len(available_actions) = 0
        THEN {[raised |-> FALSE, value |-> v] : v \in choose_action(actor, clock, core_only)}
        ELSE IF fault = "gateway"
        THEN {[raised |-> FALSE, value |-> v] :
                 v \in sample_action(available_actions,
                                     ~core_only /\ gateway_open_guarded(actor, clock, TRUE))}
        ELSE {[raised |-> FALSE, value |-> << available_actions[1] >>]}
\* ------------------------------------------------------------------ simulator.py

\* handle_time_jump draws the displacement: forward 1..24 h or backward 1..12 h.
HandleJumpHours ==
    {1, 24, -1, -12}

\* The turn of an actor that nothing is done to.
process_actor_action_unforced(actor, clock) ==
    {[actor |-> actor, branch |-> "no_actions", action |-> "None"]}

\* process_actor_action: the outcomes it can have for a ready actor; branch
\* names the path taken and action the action applied ("None" for none).
process_actor_action(actor, clock) ==
    LET forced_state == override_state(actor, clock)
        forced == lookup_forced(forced_state, actor, TRUE)
        outcome(chosen) ==
            IF chosen = << >>
            THEN {[actor |-> IF actor.state # "Idle"
                             THEN [actor EXCEPT !.state = "Idle",
                                                !.substate = "no_actions_available"]
                             ELSE actor,
                   branch |-> "no_actions", action |-> "None"]}
            ELSE IF chosen[1] = TIME_JUMP
            THEN {[actor |-> apply_jump_effects(actor, calculate_time_jump_effects(60 * h)),
                   branch |-> "time_jump", action |-> TIME_JUMP.name] :
                      h \in HandleJumpHours}
            ELSE LET r == apply_action(chosen[1], actor, 0)
                 IN  {[actor |-> IF r.ok THEN r.actor
                                 ELSE [r.actor EXCEPT !.state = "Idle",
                                                      !.substate = "action_failed"],
                       branch |-> IF r.ok THEN "probability_selected" ELSE "action_failed",
                       action |-> chosen[1].name]}
    IN  IF forced_state # "None"
        THEN IF forced # << >>
             THEN {[actor |-> apply_action(forced[1], actor, 0).actor,
                    branch |-> "calendar_forced", action |-> forced[1].name]}
             ELSE {[actor |-> [actor EXCEPT !.state = "Idle",
                                            !.substate = "calendar_conflict"],
                    branch |-> "calendar_conflict", action |-> "None"]}
        ELSE UNION {outcome(chosen) : chosen \in choose_action(actor, clock, TRUE)}

\* The busy branch the three driver loops share.
busy_outcome(actor) ==
    [actor |-> [actor EXCEPT !.current_ticks_left = actor.current_ticks_left - 1],
     branch |-> "busy", action |-> "None"]

\* One actor's turn in run.
run_turn(actor, clock) ==
    IF actor.current_ticks_left > 0 THEN {busy_outcome(actor)}
    ELSE process_actor_action(actor, clock)

\* One actor's turn in simulate_until_condition.
until_turn(actor, clock) ==
    IF actor.current_ticks_left > 0 THEN {busy_outcome(actor)}
    ELSE {IF chosen # << >> /\ chosen[1] # TIME_JUMP
          THEN [actor |-> apply_action(chosen[1], actor, 0).actor,
                branch |-> "probability_selected", action |-> chosen[1].name]
          ELSE [actor |-> actor, branch |-> "no_actions", action |-> "None"] :
             chosen \in choose_action(actor, clock, TRUE)}

\* One actor's turn in run_parallel_simulation.  A chosen time jump calls
\* create_fork: fork_world marks the source actor Idle, "time_jumped_away"
\* before it touches the source's prob_mass, and `prob_mass *= ...` raises on
\* None, so the fork is made only when the source has a mass.
parallel_turn(actor, clock, mass) ==
    IF actor.current_ticks_left > 0 THEN {busy_outcome(actor)}
    ELSE {IF chosen = << >>
          THEN [actor |-> actor, branch |-> "no_actions", action |-> "None"]
          ELSE IF chosen[1] = TIME_JUMP
          THEN [actor |-> [actor EXCEPT !.state = "Idle",
                                        !.substate = "time_jumped_away"],
                branch |-> IF mass.none THEN "fork_failed" ELSE "forked",
                action |-> TIME_JUMP.name]
          ELSE [actor |-> apply_action(chosen[1], actor, 0).actor,
                branch |-> "probability_selected", action |-> chosen[1].name] :
             chosen \in choose_action(actor, clock, FALSE)}

\* ------------------------------------------------------------------ objects
\* Worlds, their actors dict, their clock, the actors and the actors' calendar
\* lists are objects: the heap is the sequence of the objects allocated so far
\* and a reference is an index into it.  Two names alias when they hold the
\* same reference.

\* A world id is the sequence of the pieces of the id string:
\* f"{src_world.world_id}_fork_{suffix}" appends "_fork_" and the suffix.
MainId ==
    << "main" >>

\* "_fork_" in world_id
is_fork_id(world_id) ==
    \E i \in 1..Len(world_id) : world_id[i] = "_fork_"

\* prob_mass in units of 1e-8; None is a value of its own.
MassUnit ==
    10000 * 10000

NoneMass ==
    [none |-> TRUE, units |-> 0]

Mass(units) ==
    [none |-> FALSE, units |-> units]

\* TIME_JUMP_PROB = 0.02, as a fraction 1 / TimeJumpShare.
TimeJumpShare ==
    50

\* m * TIME_JUMP_PROB
jump_share(units) ==
    units \div TimeJumpShare

\* m * (1 - TIME_JUMP_PROB)
jump_complement(units) ==
    (units \div TimeJumpShare) * (TimeJumpShare - 1)

WorldStateObject(world_id, actors, clock, prob_mass) ==
    [kind |-> "WorldState", world_id |-> world_id, actors |-> actors,
     clock |-> clock, prob_mass |-> prob_mass]

DictObject(items) ==
    [kind |-> "dict", items |-> items]

ListObject(items) ==
    [kind |-> "list", items |-> items]

WorldClockObject(current_time, tick_count) ==
    [kind |-> "WorldClock", current_time |-> current_time,
     tick_duration_minutes |-> 15, tick_count |-> tick_count]

\* An Actor object: the fields of the actor, its id and world_id, and the
\* reference of its calendar list.
ActorObject(id, world_id, fields, calendar) ==
    [kind |-> "Actor", id |-> id, world_id |-> world_id, state |-> fields.state,
     substate |-> fields.substate, location_id |-> fields.location_id,
     hunger |-> fields.hunger, fatigue |-> fields.fatigue, mood |-> fields.mood,
     cash |-> fields.cash, energy |-> fields.energy, battery |-> fields.battery,
     current_ticks_left |-> fields.current_ticks_left, calendar |-> calendar]

\* The order in which the model lists the keys of an actors dict.
ActorOrder ==
    << "a1", "a2", "a3" >>

actor_ids(h, world) ==
    SelectSeq(ActorOrder, LAMBDA id : id \in DOMAIN h[h[world].actors].items)

\* The references of the actors of a world.
actor_refs(h, world) ==
    {h[h[world].actors].items[id] : id \in DOMAIN h[h[world].actors].items}

\* copy.copy of a world: a new WorldState object whose fields hold the same
\* references.
copy_shallow(h, world) ==
    [heap |-> Append(h, h[world]), value |-> Len(h) + 1]

\* copy.deepcopy of a world: a new object for the world, its dict, its clock,
\* every actor and every calendar list.
deepcopy(h, world) ==
    LET n == Len(h)
        ids == actor_ids(h, world)
        items == h[h[world].actors].items
        actor_at(k) == n + 2 + 2 * k
        calendar_at(k) == n + 3 + 2 * k
        index_of(id) == CHOOSE k \in 1..Len(ids) : ids[k] = id
        copies ==
            << [h[world] EXCEPT !.actors = n + 2, !.clock = n + 3],
               DictObject([id \in DOMAIN items |-> actor_at(index_of(id))]),
               h[h[world].clock] >>
            \o [i \in 1..(2 * Len(ids)) |->
                   LET k == (i + 1) \div 2
                       actor == h[items[ids[k]]]
                   IN  IF i % 2 = 1
                       THEN [actor EXCEPT !.calendar = calendar_at(k)]
                       ELSE h[actor.calendar]]
    IN  [heap |-> h \o copies, value |-> n + 1]

\* int(x / y) of Python: the quotient rounded toward zero.
trunc_div(x, y) ==
    IF x >= 0 THEN x \div y ELSE -((-x) \div y)

\* F applied to the value of v, which is computed once.
Then(v, F(_)) ==
    CHOOSE r \in {F(x) : x \in {v}} : TRUE

\* ------------------------------------------------------------------ time_jump.py
\* fork_world up to the loop that stamps the copied actors: the copy is
\* given the fork id and so is every actor in its dict.
fork_stamped(h, forked_world, fork_id) ==
    LET forked_actors == actor_refs(h, forked_world)
    IN  [r \in DOMAIN h |->
            IF r = forked_world \/ r \in forked_actors
            THEN [h[r] EXCEPT !.world_id = fork_id]
            ELSE h[r]]

\* fork_world's tick count: int(hours_jumped * 4) is time_delta in minutes
\* over 15, truncated towards zero; the clock's tick_duration_minutes is not
\* read.
fork_tick_count(src_clock, time_delta) ==
    LET ticks_jumped == trunc_div(time_delta, 15)
    IN  Max(0, src_clock.tick_count + ticks_jumped)

\* fork_world's clock statements: time_delta is taken from the source's
\* clock, the copy's clock is set to the target and its tick count is
\* recomputed with four ticks per hour.
fork_clock(h, src_world, forked_world, target_time) ==
    LET src_clock == h[h[src_world].clock]
        time_delta == target_time - src_clock.current_time
        set == [h EXCEPT ![h[forked_world].clock].current_time = target_time]
    IN  [heap |-> [set EXCEPT ![set[forked_world].clock].tick_count =
                       fork_tick_count(set[set[src_world].clock], time_delta)],
         time_delta |-> time_delta]

\* fork_world's `if jumping_actor:` block: the jump costs and the arrival
\* state, on the copy's actor of the same id.
fork_effects(h, forked_world, actor, time_delta) ==
    LET items == h[h[forked_world].actors].items
        jumping_actor == items[h[actor].id]
    IN  IF h[actor].id \in DOMAIN items
        THEN [h EXCEPT ![jumping_actor] =
                 apply_jump_effects(h[jumping_actor],
                     calculate_time_jump_effects(time_delta))]
        ELSE h

\* fork_world's last statements: the actor that was passed is marked, the
\* copy gets TIME_JUMP_PROB and the source's mass is multiplied by the
\* complement.  raised tells whether an exception ended them, heap is the heap
\* at that point.
\* `from .states import State` sits inside `if jumping_actor:`, so State is a
\* local name that is unbound on the other branch: `actor.state = State.Idle`
\* raises when the actor's id is not a key of the copied dict.
\* `src_world.prob_mass *= ...` raises on None.
fork_marks(h, src_world, forked_world, actor) ==
    LET found == h[actor].id \in DOMAIN h[h[forked_world].actors].items
        marked == [h EXCEPT ![actor].state = "Idle",
                            ![actor].substate = "time_jumped_away"]
        given == [marked EXCEPT ![forked_world].prob_mass = Mass(jump_share(MassUnit))]
    IN  IF ~found THEN [heap |-> h, raised |-> TRUE]
        ELSE IF given[src_world].prob_mass.none THEN [heap |-> given, raised |-> TRUE]
        ELSE [heap |-> [given EXCEPT ![src_world].prob_mass =
                           Mass(jump_complement(given[src_world].prob_mass.units))],
              raised |-> FALSE]

\* fork_world(src_world, actor, target_time); suffix stands for the eight hex
\* digits of uuid4, taken to be fresh.  The statements run in the order of the
\* code, each on the heap the one before left.  An exception ends the call
\* with the heap as it is at that statement and no value; the copy, which
\* nothing refers to any more, is dropped from the heap.
fork_world(h, src_world, actor, target_time, suffix) ==
    Then(deepcopy(h, src_world), LAMBDA c :
    Then(fork_stamped(c.heap, c.value, h[src_world].world_id \o << "_fork_", suffix >>),
         LAMBDA stamped :
    Then(fork_clock(stamped, src_world, c.value, target_time), LAMBDA clocked :
    Then(fork_effects(clocked.heap, c.value, actor, clocked.time_delta), LAMBDA charged :
    Then(fork_marks(charged, src_world, c.value, actor), LAMBDA done :
        IF done.raised
        THEN [heap |-> SubSeq(done.heap, 1, Len(h)), raised |-> TRUE, value |-> 0]
        ELSE [heap |-> done.heap, raised |-> FALSE, value |-> c.value])))))

\* A dict that is iterated in insertion order: the sequence of its
\* (key, value) pairs.
dict_keys(d) ==
    [i \in 1..Len(d) |-> d[i].key]

dict_has(d, key) ==
    \E i \in 1..Len(d) : d[i].key = key

dict_get(d, key) ==
    d[CHOOSE i \in 1..Len(d) : d[i].key = key].value

\* d[key] = value: a key already present keeps its place.
dict_set(d, key, value) ==
    IF dict_has(d, key)
    THEN [i \in 1..Len(d) |-> IF d[i].key = key THEN [key |-> key, value |-> value] ELSE d[i]]
    ELSE Append(d, [key |-> key, value |-> value])

\* del d[key]
dict_del(d, key) ==
    SelectSeq(d, LAMBDA e : e.key # key)

in_list(list, x) ==
    \E i \in 1..Len(list) : list[i] = x

\* list.remove(x): the first occurrence goes.
list_remove(list, x) ==
    LET first == CHOOSE i \in 1..Len(list) :
                     list[i] = x /\ \A j \in 1..(i - 1) : list[j] # x
    IN  [i \in 1..(Len(list) - 1) |-> IF i < first THEN list[i] ELSE list[i + 1]]

\* main_world_id = None
NoWorldId ==
    << >>

\* WorldManager.__init__
WorldManager ==
    [worlds |-> << >>, active_forks |-> << >>, fork_history |-> << >>,
     main_world_id |-> NoWorldId]

\* WorldManager.add_world.  prob_mass is a declared field of WorldState, so
\* hasattr(world, 'prob_mass') is true and the mass is left as it is.
add_world(m, h, world) ==
    LET world_id == h[world].world_id
        m1 == [m EXCEPT !.worlds = dict_set(m.worlds, world_id, world)]
        m2 == IF m1.main_world_id = NoWorldId
              THEN [m1 EXCEPT !.main_world_id = world_id]
              ELSE m1
    IN  IF is_fork_id(world_id) /\ ~in_list(m2.active_forks, world_id)
        THEN [m2 EXCEPT !.active_forks = Append(m2.active_forks, world_id)]
        ELSE m2

\* WorldManager.remove_world
remove_world(m, world_id) ==
    [worlds |-> dict_del(m.worlds, world_id),
     active_forks |-> IF in_list(m.active_forks, world_id)
                      THEN list_remove(m.active_forks, world_id)
                      ELSE m.active_forks,
     fork_history |-> [k \in DOMAIN m.fork_history \ {world_id} |-> m.fork_history[k]],
     main_world_id |-> m.main_world_id]

\* create_fork after fork_world returned f: add_world, the split of the
\* mass and the lineage.
fork_added(m, f, source_world_id, source_world) ==
    LET m1 == add_world(m, f.heap, f.value)
        original_mass == f.heap[source_world].prob_mass.units
        fork_id == f.heap[f.value].world_id
        history == IF source_world_id \in DOMAIN m1.fork_history
                   THEN m1.fork_history[source_world_id]
                   ELSE << >>
    IN  [manager |-> [m1 EXCEPT !.fork_history =
                         [k \in DOMAIN m1.fork_history \cup {source_world_id} |->
                             IF k = source_world_id THEN Append(history, fork_id)
                             ELSE m1.fork_history[k]]],
         heap |-> [f.heap EXCEPT
                      ![source_world].prob_mass = Mass(jump_complement(original_mass)),
                      ![f.value].prob_mass = Mass(jump_share(original_mass))],
         raised |-> "None",
         value |-> fork_id]

\* WorldManager.create_fork; raised names the exception that leaves the call,
\* "None" for a normal return of value.
create_fork(m, h, source_world_id, actor, target_time, suffix) ==
    IF ~dict_has(m.worlds, source_world_id)
    THEN [manager |-> m, heap |-> h, raised |-> "ValueError", value |-> NoWorldId]
    ELSE
    Then(dict_get(m.worlds, source_world_id), LAMBDA source_world :
    Then(fork_world(h, source_world, actor, target_time, suffix), LAMBDA f :
        IF f.raised
        THEN [manager |-> m, heap |-> f.heap, raised |-> "RuntimeError", value |-> NoWorldId]
        ELSE fork_added(m, f, source_world_id, source_world)))

\* The substates that contain "time_jump".
TimeJumpSubstates ==
    {"post_time_jump", "time_jumped_away", "action_time_jump"}

\* One pass of prune_inactive_forks over list(self.worlds.keys()), from key i.
\* `prob_mass < min_prob_mass` raises TypeError on None.
RECURSIVE prune_from(_, _, _, _, _, _)
prune_from(keys, i, m, h, min_prob_mass, pruned) ==
    IF i > Len(keys) THEN [manager |-> m, raised |-> FALSE, value |-> pruned]
    ELSE IF keys[i] = m.main_world_id
    THEN prune_from(keys, i + 1, m, h, min_prob_mass, pruned)
    ELSE
    LET world_id == keys[i]
        world == dict_get(m.worlds, world_id)
        prob_mass == h[world].prob_mass
        has_active_jumpers ==
            \E r \in actor_refs(h, world) : h[r].substate \in TimeJumpSubstates
    IN  IF prob_mass.none
        THEN [manager |-> m, raised |-> TRUE, value |-> pruned]
        ELSE IF prob_mass.units < min_prob_mass
        THEN Then(remove_world(m, world_id), LAMBDA removed :
                 prune_from(keys, i + 1, removed, h, min_prob_mass,
                            Append(pruned, world_id)))
        ELSE IF ~has_active_jumpers /\ Len(m.worlds) > 3
        THEN Then(remove_world(m, world_id), LAMBDA removed :
                 prune_from(keys, i + 1, removed, h, min_prob_mass,
                            Append(pruned, world_id)))
        ELSE prune_from(keys, i + 1, m, h, min_prob_mass, pruned)

\* WorldManager.prune_inactive_forks
prune_inactive_forks(m, h, min_prob_mass) ==
    prune_from(dict_keys(m.worlds), 1, m, h, min_prob_mass, << >>)

\* ------------------------------------------------------------------ world.py

\* initialize_world followed by create_sample_actor for each member, and by
\* an assignment to prob_mass when the mass is not None: the world, its dict,
\* its clock, and an Actor with its calendar list per member.
new_world(h, world_id, prob_mass, current_time, members) ==
    LET n == Len(h)
        ids == SelectSeq(ActorOrder, LAMBDA id : id \in DOMAIN members)
        index_of(id) == CHOOSE k \in 1..Len(ids) : ids[k] = id
        objects ==
            << WorldStateObject(world_id, n + 2, n + 3, prob_mass),
               DictObject([id \in DOMAIN members |-> n + 2 + 2 * index_of(id)]),
               WorldClockObject(current_time, 0) >>
            \o [i \in 1..(2 * Len(ids)) |->
                   LET k == (i + 1) \div 2
                   IN  IF i % 2 = 1
                       THEN ActorObject(ids[k], world_id, members[ids[k]], n + 3 + 2 * k)
                       ELSE ListObject(members[ids[k]].calendar)]
    IN  [heap |-> h \o objects, value |-> n + 1]

\* An Actor that is in no world's dict, with its calendar list.
new_actor(h, id, world_id, fields) ==
    [heap |-> h \o << ActorObject(id, world_id, fields, Len(h) + 2),
                      ListObject(fields.calendar) >>,
     value |-> Len(h) + 1]

\* What a world holds, by value: its fields, its clock and its actors with
\* their calendars.
WorldView(h, world) ==
    [world_id |-> h[world].world_id,
     prob_mass |-> h[world].prob_mass,
     clock |-> h[h[world].clock],
     actors |-> [id \in DOMAIN h[h[world].actors].items |->
                    LET actor == h[h[h[world].actors].items[id]]
                    IN  [actor EXCEPT !.calendar = h[actor.calendar].items]]]

\* The WorldState objects of the heap.
WorldRefs(h) ==
    {r \in DOMAIN h : h[r].kind = "WorldState"}

\* The Actor objects of the heap.
ActorRefs(h) ==
    {r \in DOMAIN h : h[r].kind = "Actor"}


\* m * 0.999, to the unit of mass.
decay(units) ==
    units - units \div 1000

RECURSIVE total_mass(_, _, _)
total_mass(worlds, i, h) ==
    IF i > Len(worlds) THEN 0
    ELSE h[worlds[i].value].prob_mass.units + total_mass(worlds, i + 1, h)

\* synchronize_worlds: every managed world's clock is advanced; then the
\* masses are summed and, if the sum is positive, every mass is multiplied by
\* 0.999.  sum() raises TypeError on a mass that is None (getattr's default
\* does not apply to a declared field, and hasattr is true); the except clause
\* logs it and the call returns with the clocks advanced and no mass changed.
synchronize_worlds(m, h) ==
    LET managed == {m.worlds[i].value : i \in 1..Len(m.worlds)}
        clocks == {h[w].clock : w \in managed}
        ticked == [r \in DOMAIN h |-> IF r \in clocks THEN advance_tick(h[r]) ELSE h[r]]
    IN  IF \E w \in managed : h[w].prob_mass.none THEN ticked
        ELSE IF total_mass(m.worlds, 1, h) > 0
        THEN [r \in DOMAIN h |->
                 IF r \in managed
                 THEN [h[r] EXCEPT !.prob_mass = Mass(decay(h[r].prob_mass.units))]
                 ELSE ticked[r]]
        ELSE ticked

\* abs()
absolute(x) ==
    IF x < 0 THEN -x ELSE x

\* A float as a quotient of integers.
Quotient(num, den) ==
    [num |-> num, den |-> den]

\* The sum of state_differences over the common actors, in units of 1/3000:
\* 1 for a different state, 1 for a different location, and the resource
\* differences (hunger and fatigue in tenths, mood in hundredths) / 300.
RECURSIVE state_differences(_, _, _, _, _)
state_differences(h, world_a, world_b, ids, i) ==
    IF i > Len(ids) THEN 0
    ELSE LET actor_a == h[h[h[world_a].actors].items[ids[i]]]
             actor_b == h[h[h[world_b].actors].items[ids[i]]]
         IN  (IF actor_a.state # actor_b.state THEN 3000 ELSE 0)
             + (IF actor_a.location_id # actor_b.location_id THEN 3000 ELSE 0)
             + absolute(actor_a.hunger - actor_b.hunger)
             + absolute(actor_a.fatigue - actor_b.fatigue)
             + 5 * absolute(actor_a.mood - actor_b.mood)
             + state_differences(h, world_a, world_b, ids, i + 1)

\* get_timeline_divergence: 0.0 for equal world ids; else the mean of the
\* time divergence, min(1, minutes / 1440), and, if the worlds have actor ids
\* in common, the state divergence, min(1, state_differences / (3 * n)).
get_timeline_divergence(h, world_a, world_b) ==
    IF h[world_a].world_id = h[world_b].world_id THEN Quotient(0, 1)
    ELSE LET time_diff == absolute(h[h[world_a].clock].current_time
                                      - h[h[world_b].clock].current_time)
             time_divergence == Min(24 * 60, time_diff)
             common_actors == SelectSeq(actor_ids(h, world_a),
                                        LAMBDA id : id \in DOMAIN h[h[world_b].actors].items)
             n == Len(common_actors)
         IN  IF n = 0 THEN Quotient(time_divergence, 24 * 60)
             ELSE Then(Min(9000 * n, state_differences(h, world_a, world_b, common_actors, 1)),
                       LAMBDA state_divergence :
                          Quotient(time_divergence * 9000 * n
                                      + state_divergence * 24 * 60,
                                   2 * 24 * 60 * 9000 * n))

\* ------------------------------------------------------------------ probability.py, the factors
\* Factors are in units of 1e-5; hunger and fatigue in tenths, mood in
\* hundredths, as on the actor.

hunger_factor_unclamped(hunger) ==
    80000 + 40 * hunger

\* 0.8 + 0.4 * (max(0, min(100, hunger)) / 100)
hunger_factor(hunger) ==
    80000 + 40 * Max(0, Min(1000, hunger))

\* 0.8 + 0.4 * (max(0, min(100, fatigue)) / 100)
fatigue_factor(fatigue) ==
    80000 + 40 * Max(0, Min(1000, fatigue))

\* 1 + 0.015 * max(-2, min(2, mood))
mood_factor(mood) ==
    100000 + 15 * Max(-200, Min(200, mood))
\* ------------------------------------------------------------------ state

VARIABLES
    actors,     \* WorldState.actors: actor id -> Actor
    clock,      \* WorldState.clock
    prob_mass,  \* WorldState.prob_mass
    driver,     \* the entry point that works on this world
    due,        \* actor id -> tick at which the action a driver applied ends, -1 if none
    nops,       \* deciding ticks and direct calls so far
    pre,        \* actors, clock and due as they were before the last operation
    last,       \* the last operation: its name, per actor the branch taken, and
                \* the clock the world had while its actors were processed
    ret,        \* the value the last query returned
    heap,       \* the objects of the worlds that fork: worlds, dicts, clocks, actors, lists
    manager,    \* the WorldManager: worlds, active_forks, fork_history, main_world_id
    loop,       \* run's frame: its worlds dict, end_dt, tick_count, and whether it returned
    api         \* the API's SimulationManager flag, its background tasks and the last response

vars ==
    << actors, clock, prob_mass, driver, due, nops, pre, last, ret, heap, manager,
       loop, api >>

ActorIds ==
    {"a1"}

\* prob_mass: None, or 1.0 * 0.98^shrinks * 0.999^decays.
NoMass ==
    [none |-> TRUE, shrinks |-> 0, decays |-> 0]

UnitMass ==
    [none |-> FALSE, shrinks |-> 0, decays |-> 0]

Actor(state, location_id, hunger, fatigue, mood, cash, energy, battery, calendar) ==
    [state |-> state, substate |-> "None", location_id |-> location_id,
     hunger |-> hunger, fatigue |-> fatigue, mood |-> mood, cash |-> cash,
     energy |-> energy, battery |-> battery, current_ticks_left |-> 0,
     calendar |-> calendar]

TimeBlock(start_dt, end_dt, required_state) ==
    [start_dt |-> start_dt, end_dt |-> end_dt, required_state |-> required_state]

\* 09:00 of day 0, the start of the scenarios.
StartTime ==
    9 * 60

WorldClock(current_time) ==
    [current_time |-> current_time, tick_duration_minutes |-> 15, tick_count |-> 0]

NoCalendar ==
    << >>

\* A work block that is active from the second tick on.
WorkCalendar ==
    << TimeBlock(StartTime + 15, StartTime + 480, "Focused_Work") >>

\* A meeting that overlaps a work block: the meeting is first in the list.
MeetingCalendar ==
    << TimeBlock(StartTime, StartTime + 30, "In_Meeting"),
       TimeBlock(StartTime, StartTime + 480, "Focused_Work") >>

\* A meal: two core actions lead to Eating.
LunchCalendar ==
    << TimeBlock(StartTime, StartTime + 30, "Eating") >>

\* create_sample_actor's resources.
SampleActor(state, location_id, calendar) ==
    Actor(state, location_id, 250, 300, 20, 1000, 1000, 1000, calendar)

ExhaustedActor(state, location_id, calendar) ==
    Actor(state, location_id, 250, 960, 20, 1000, 1000, 1000, calendar)

StarvingActor(state, location_id, calendar) ==
    Actor(state, location_id, 920, 300, 20, 1000, 1000, 1000, calendar)

\* Starving, exhausted and without cash: no core action passes the filter.
SpentActor(state, location_id, calendar) ==
    Actor(state, location_id, 1000, 1000, 20, 0, 1000, 1000, calendar)

\* Hungry and tired at once, below the thresholds of the automatic transitions.
NeedyActor(state, location_id, calendar) ==
    Actor(state, location_id, 750, 850, 20, 1000, 1000, 1000, calendar)

BrokeActor(state, location_id, calendar) ==
    Actor(state, location_id, 500, 500, -190, 0, 300, 200, calendar)

\* The worlds run is started on.
RunActors ==
    {SampleActor("Idle", l, c) :
        l \in {"home_a", "home_g", "public_office"},
        c \in {NoCalendar, WorkCalendar, MeetingCalendar}}
    \cup {SampleActor("Idle", "home_a", LunchCalendar),
          SampleActor("Idle", "public_park", WorkCalendar),
          SampleActor("Idle", "public_office", LunchCalendar),
          ExhaustedActor("Idle", "home_a", WorkCalendar),
          ExhaustedActor("Idle", "public_office", NoCalendar),
          ExhaustedActor("Sleeping", "home_a", NoCalendar),
          StarvingActor("Idle", "public_office", MeetingCalendar),
          StarvingActor("Eating", "home_a", NoCalendar),
          SpentActor("Idle", "home_a", NoCalendar),
          SpentActor("Sleeping", "home_a", NoCalendar)}
    \cup {BrokeActor("Idle", "public_office", c) :
             c \in {NoCalendar, WorkCalendar, MeetingCalendar}}

UntilActors ==
    {SampleActor("Idle", "home_a", NoCalendar),
     ExhaustedActor("Driving", "public_office", NoCalendar),
     BrokeActor("Idle", "public_office", WorkCalendar)}

ParallelActors ==
    {SampleActor("Idle", "time_machine_gateway", NoCalendar),
     SampleActor("Idle", "home_a", WorkCalendar)}

\* The actors the library's functions are called on directly.
DirectActors ==
    {ExhaustedActor(s, "home_a", NoCalendar) : s \in CoreStates}
    \cup {SampleActor("Idle", "home_a", NoCalendar),
          StarvingActor("Idle", "public_office", NoCalendar),
          NeedyActor("Idle", "home_a", NoCalendar),
          SpentActor("Idle", "home_a", NoCalendar),
          BrokeActor("Focused_Work", "public_office", NoCalendar)}

NoBranch ==
    [id \in ActorIds |-> "-"]

NoAction ==
    [id \in ActorIds |-> "None"]

NoRet ==
    [fn |-> "-"]

\* No call of run is in progress.
NoLoop ==
    [worlds |-> << >>, end_dt |-> 0, tick_count |-> 0, returned |-> TRUE]

\* The API serves no request.
NoApi ==
    [simulation_running |-> FALSE, tasks |-> << >>, response |-> "-"]

InitHistory ==
    /\ due = [id \in ActorIds |-> -1]
    /\ nops = 0
    /\ pre = [actors |-> actors, clock |-> clock, due |-> due]
    /\ last = [op |-> "init", branch |-> NoBranch, action |-> NoAction,
               ok |-> TRUE, raise_at |-> 0, seen |-> clock]
    /\ ret = NoRet

Init ==
    /\ driver \in {"run", "simulate_until_condition", "run_parallel_simulation", "direct"}
    /\ actors \in [ActorIds ->
                      CASE driver = "run" -> RunActors
                        [] driver = "simulate_until_condition" -> UntilActors
                        [] driver = "run_parallel_simulation" -> ParallelActors
                        [] driver = "direct" -> DirectActors]
    /\ clock \in (IF driver = "run_parallel_simulation"
                  THEN {WorldClock(StartTime - 120), WorldClock(StartTime)}
                  ELSE {WorldClock(StartTime)})
    /\ prob_mass \in (IF driver = "run_parallel_simulation" THEN {NoMass, UnitMass}
                      ELSE {NoMass})
    /\ heap = << >>
    /\ manager = WorldManager
    /\ loop = NoLoop
    /\ api = NoApi
    /\ InitHistory

Snapshot ==
    [actors |-> actors, clock |-> clock, due |-> due]

ActionNamed(name) ==
    ALL_ACTIONS[CHOOSE i \in 1..Len(ALL_ACTIONS) : ALL_ACTIONS[i].name = name]

\* One outcome per actor, each from the set its turn can have.
Choices(sets) ==
    {f \in [ActorIds -> UNION {sets[id] : id \in ActorIds}] :
        \A id \in ActorIds : f[id] \in sets[id]}

\* The tick at which an actor's next decision is due after its turn in tick k.
DueAfter(id, outcome, k) ==
    IF outcome.branch = "busy" THEN due[id]
    ELSE IF outcome.branch \in {"calendar_forced", "probability_selected"}
    THEN k + ActionNamed(outcome.action).duration_ticks
    ELSE -1

SomeReady ==
    \E id \in ActorIds : actors[id].current_ticks_left = 0

TickAllowed ==
    /\ clock.tick_count < MaxTicks
    /\ SomeReady => nops < MaxOps

Ticked(op, f) ==
    /\ actors' = [id \in ActorIds |-> f[id].actor]
    /\ due' = [id \in ActorIds |-> DueAfter(id, f[id], clock.tick_count)]
    /\ nops' = IF SomeReady THEN nops + 1 ELSE nops
    /\ pre' = Snapshot
    /\ last' = [op |-> op, branch |-> [id \in ActorIds |-> f[id].branch],
                action |-> [id \in ActorIds |-> f[id].action],
                ok |-> TRUE, raise_at |-> 0, seen |-> clock]
    /\ UNCHANGED << ret, heap, manager, loop, api >>

\* One pass of run's loop over a world that has not reached end_dt.
RunTick ==
    /\ driver = "run"
    /\ TickAllowed
    /\ \E f \in Choices([id \in ActorIds |-> run_turn(actors[id], clock)]) :
          Ticked("run", f)
    /\ clock' = advance_tick(clock)
    /\ UNCHANGED << prob_mass, driver >>

\* One pass of simulate_until_condition's loop.
UntilTick ==
    /\ driver = "simulate_until_condition"
    /\ TickAllowed
    /\ \E f \in Choices([id \in ActorIds |-> until_turn(actors[id], clock)]) :
          Ticked("simulate_until_condition", f)
    /\ clock' = advance_tick(clock)
    /\ UNCHANGED << prob_mass, driver >>

\* synchronize_worlds on this world's mass: sum() raises on a None mass and the
\* except clause ends the step with the masses as they were.
decayed(mass) ==
    IF mass.none THEN mass ELSE [mass EXCEPT !.decays = mass.decays + 1]

\* create_fork on this world's mass: fork_world shrinks it, then create_fork
\* shrinks it again.
shrunk(mass) ==
    [mass EXCEPT !.shrinks = mass.shrinks + 2]

\* One pass of run_parallel_simulation's loop.  A fork that was made adds a
\* world to the dict the loop iterates: the loop raises RuntimeError once this
\* world's actors are done, before advance_all_worlds.
ParallelTick ==
    /\ driver = "run_parallel_simulation"
    /\ TickAllowed
    /\ \E f \in Choices([id \in ActorIds |-> parallel_turn(actors[id], clock, prob_mass)]) :
          /\ Ticked("run_parallel_simulation", f)
          /\ IF \E id \in ActorIds : f[id].branch = "forked"
             THEN /\ driver' = "raised"
                  /\ clock' = clock
                  /\ prob_mass' = shrunk(prob_mass)
             ELSE /\ driver' = driver
                  /\ clock' = advance_tick(clock)
                  /\ prob_mass' = decayed(prob_mass)

DirectAllowed ==
    /\ driver = "direct"
    /\ nops < MaxOps

Called(op, id, actor, action, ok, raise_at) ==
    /\ nops' = nops + 1
    /\ actors' = [actors EXCEPT ![id] = actor]
    /\ due' = [due EXCEPT ![id] = -1]
    /\ pre' = Snapshot
    /\ last' = [op |-> op, branch |-> [NoBranch EXCEPT ![id] = "call"],
                action |-> [NoAction EXCEPT ![id] = action],
                ok |-> ok, raise_at |-> raise_at, seen |-> clock]
    /\ UNCHANGED << prob_mass, driver, ret, heap, manager, loop, api >>

\* advance_world: the clock first, then every actor's _process_actor_tick.
AdvanceWorld ==
    /\ DirectAllowed
    /\ nops' = nops + 1
    /\ clock' = advance_tick(clock)
    /\ actors' \in Choices([id \in ActorIds |-> _process_actor_tick(actors[id])])
    /\ pre' = Snapshot
    /\ last' = [op |-> "advance_world", branch |-> [id \in ActorIds |-> "tick"],
                action |-> NoAction, ok |-> TRUE, raise_at |-> 0,
                seen |-> advance_tick(clock)]
    /\ UNCHANGED << prob_mass, driver, due, ret, heap, manager, loop, api >>

\* The deltas of the direct calls of update_resources.
CallDeltas ==
    {<< 1000, 1000, 500 >>, << -2000, -2000, -1000 >>}

\* The actions of the direct calls of apply_action, and the statements at which
\* one can raise: update_resources (4) and the cash sum (5) raise TypeError on a
\* resource that is not a number (assignment to an Actor is not validated).
CallActions ==
    {EAT_MEAL, DRIVE_TO_OFFICE, MALL_SHOPPING}

RaisePoints ==
    {4, 5}

UpdateResourcesCall ==
    \E id \in ActorIds, d \in CallDeltas :
        /\ DirectAllowed
        /\ Called("update_resources", id,
                  update_resources(actors[id], d[1], d[2], d[3]), "None", TRUE, 0)
        /\ clock' = clock

ApplyActionCallOf(pool, allowed) ==
    \E id \in ActorIds, a \in pool, raise_at \in {0} \cup RaisePoints :
        LET r == apply_action(a, actors[id], raise_at)
        IN  /\ allowed
            /\ Called("apply_action", id, r.actor, a.name, r.ok, raise_at)
            /\ clock' = clock

ApplyActionCall ==
    ApplyActionCallOf(CallActions, DirectAllowed)

\* The jump costs, as fork_world applies them to the jumper's clone and
\* handle_time_jump to the actor.
JumpHours ==
    {25, -200}

JumpCostsCall ==
    \E id \in ActorIds, h \in JumpHours :
        /\ DirectAllowed
        /\ Called("jump_costs", id,
                  apply_jump_effects(actors[id], calculate_time_jump_effects(60 * h)),
                  "None", TRUE, 0)
        /\ clock' = clock

Next ==
    \/ RunTick
    \/ UntilTick
    \/ ParallelTick
    \/ AdvanceWorld
    \/ UpdateResourcesCall
    \/ ApplyActionCall
    \/ JumpCostsCall

Spec ==
    Init /\ [][Next]_vars

\* ------------------------------------------------------------------ single calls
\* One call of one function on an input drawn from a set chosen for it.

\* Resource profiles on both sides of each threshold of override_state.
OverrideProfiles ==
    {[hunger |-> 250, fatigue |-> 300, mood |-> 20, cash |-> 1000],
     [hunger |-> 250, fatigue |-> 950, mood |-> 20, cash |-> 1000],
     [hunger |-> 250, fatigue |-> 940, mood |-> 20, cash |-> 1000],
     [hunger |-> 900, fatigue |-> 940, mood |-> 20, cash |-> 1000],
     [hunger |-> 890, fatigue |-> 300, mood |-> -180, cash |-> 1000],
     [hunger |-> 890, fatigue |-> 300, mood |-> -170, cash |-> 0],
     [hunger |-> 890, fatigue |-> 300, mood |-> -170, cash |-> 1],
     [hunger |-> 900, fatigue |-> 950, mood |-> -180, cash |-> 0]}

OneBlock(required_state) ==
    << TimeBlock(StartTime, StartTime + 60, required_state) >>

\* A block that ended before the first covering one, and a second covering one.
ThreeBlocks(first_state, second_state) ==
    << TimeBlock(StartTime - 60, StartTime, "Sleeping"),
       TimeBlock(StartTime - 30, StartTime + 60, first_state),
       TimeBlock(StartTime, StartTime + 60, second_state) >>

OverrideInputs ==
    {[actor |-> Actor("Idle", l, p.hunger, p.fatigue, p.mood, p.cash, 1000, 1000,
                      OneBlock(s)),
      time |-> StartTime] :
        l \in Locations, s \in State, p \in OverrideProfiles}
    \cup {[actor |-> SampleActor("Idle", l, OneBlock(s)), time |-> t] :
             l \in {"home_a", "public_mall"},
             s \in {"Focused_Work", "Shopping"},
             t \in {StartTime - 15, StartTime + 45, StartTime + 60}}
    \cup {[actor |-> SampleActor("Idle", l, ThreeBlocks(s1, s2)), time |-> t] :
             l \in {"home_a", "public_mall"},
             s1 \in {"Focused_Work", "Shopping"}, s2 \in {"Eating", "Socialising"},
             t \in {StartTime - 45, StartTime - 15, StartTime}}
    \cup {[actor |-> SampleActor("Idle", "home_a", NoCalendar), time |-> StartTime]}

TransitionInputs ==
    {[actor |-> SampleActor(s, "home_a", NoCalendar), time |-> StartTime] : s \in State}

\* Resources on both sides of the bounds the filter tests.
AvailableProfiles ==
    {[hunger |-> h, fatigue |-> f, mood |-> m, cash |-> c] :
        h \in {0, 250, 1000}, f \in {0, 300, 1000},
        m \in {-200, -100, -50, 20, 200}, c \in {0, 4, 1000}}

AvailableInputs ==
    {[actor |-> Actor("Idle", l, p.hunger, p.fatigue, p.mood, p.cash, 1000, 1000,
                      NoCalendar),
      time |-> StartTime] :
        l \in Locations, p \in AvailableProfiles}

ApplyInputs ==
    {[actor |-> a, time |-> StartTime] :
        a \in DirectActors
              \cup {Actor("Idle", "public_mall", 50, 980, 200, 3, 1000, 1000, NoCalendar),
                    Actor("Walking", "public_park", 1000, 0, -200, 0, 0, 0, WorkCalendar)}}

\* Actors with many, few and no eligible actions, at and away from the gateway.
ChooseInputs ==
    {[actor |-> a, time |-> t] :
        a \in {SampleActor("Idle", "home_a", NoCalendar),
               SampleActor("Idle", "time_machine_gateway", NoCalendar),
               Actor("Idle", "time_machine_gateway", 250, 300, 20, 10, 1000, 1000, NoCalendar),
               Actor("Idle", "time_machine_gateway", 250, 300, -50, 1000, 1000, 1000, NoCalendar),
               Actor("Walking", "public_clinic", 1000, 1000, -200, 0, 0, 0, NoCalendar),
               Actor("Idle", "public_park", 995, 995, 20, 0, 1000, 1000, NoCalendar)},
        t \in {StartTime - 120, StartTime}}

\* Each gate of gateway_open on both sides of its threshold.
GatewayInputs ==
    {[actor |-> Actor("Idle", l, h, f, m, c, e, b, NoCalendar), time |-> 60 * hr] :
        l \in {"time_machine_gateway", "home_a"},
        h \in {690, 700}, f \in {790, 800}, m \in {-1, 0}, c \in {49, 50},
        e \in {290, 300}, b \in {190, 200}, hr \in {5, 6, 7, 8, 21, 22, 23}}

Functions ==
    {"override_state", "can_transition", "get_available_actions", "apply_action",
     "choose_action", "gateway_open", "calculate_time_jump_effects",
     "hunger_factor", "fatigue_factor", "mood_factor"}

\* The actor and the time of the calls whose arguments are numbers.
PlainInputs ==
    {[actor |-> SampleActor("Idle", "home_a", NoCalendar), time |-> StartTime]}

InitFn ==
    /\ driver \in Functions
    /\ \E inp \in (CASE driver = "override_state" -> OverrideInputs
                     [] driver = "can_transition" -> TransitionInputs
                     [] driver = "get_available_actions" -> AvailableInputs
                     [] driver = "apply_action" -> ApplyInputs
                     [] driver = "choose_action" -> ChooseInputs
                     [] driver = "gateway_open" -> GatewayInputs
                     [] OTHER -> PlainInputs) :
          /\ actors = [id \in ActorIds |-> inp.actor]
          /\ clock = WorldClock(inp.time)
    /\ prob_mass = NoMass
    /\ heap = << >>
    /\ manager = WorldManager
    /\ loop = NoLoop
    /\ api = NoApi
    /\ InitHistory

Queried(fn, r) ==
    /\ driver = fn
    /\ last.op = "init"
    /\ last' = [last EXCEPT !.op = fn]
    /\ ret' = r
    /\ UNCHANGED << actors, clock, prob_mass, driver, due, nops, pre, heap, manager, loop, api >>

OverrideStateCall ==
    \E id \in ActorIds :
        Queried("override_state",
                [fn |-> "override_state", id |-> id,
                 value |-> override_state(actors[id], clock)])

CanTransitionCall ==
    \E id \in ActorIds, new_state \in State :
        Queried("can_transition",
                [fn |-> "can_transition", id |-> id, new_state |-> new_state,
                 value |-> can_transition(actors[id].state, new_state)])

GetAvailableActionsCall ==
    \E id \in ActorIds, core_only \in BOOLEAN :
        Queried("get_available_actions",
                [fn |-> "get_available_actions", id |-> id, core_only |-> core_only,
                 value |-> get_available_actions(actors[id], core_only)])

ChooseActionCall ==
    \E id \in ActorIds, core_only \in BOOLEAN, fault \in ChooseFaults :
        /\ driver = "choose_action"
        /\ \E r \in choose_action_guarded(actors[id], clock, core_only, fault) :
            Queried("choose_action",
                    [fn |-> "choose_action", id |-> id, core_only |-> core_only,
                     fault |-> fault, raised |-> r.raised, value |-> r.value])

GatewayOpenCall ==
    \E id \in ActorIds, raises \in BOOLEAN :
        Queried("gateway_open",
                [fn |-> "gateway_open", id |-> id, raises |-> raises,
                 value |-> gateway_open_guarded(actors[id], clock, raises)])

\* Displacements on both sides of a day and of a week, forward and backward.
TimeDeltas ==
    {sign * (60 * hours + minutes) :
        sign \in {1, -1}, hours \in {0, 6, 24, 168, 200}, minutes \in {-15, 0, 15}}

CalculateTimeJumpEffectsCall ==
    \E id \in ActorIds, time_delta \in TimeDeltas :
        Queried("calculate_time_jump_effects",
                [fn |-> "calculate_time_jump_effects", id |-> id,
                 time_delta |-> time_delta,
                 value |-> calculate_time_jump_effects(time_delta)])

\* Levels inside the range 0..100, on its ends and beyond them, in tenths.
FactorLevels ==
    {-1000, -500, -100, -1, 0, 1, 250, 500, 750, 999, 1000, 1001, 1500, 2000, 3000}

\* Moods inside the range -2..2, on its ends and beyond them, in hundredths.
FactorMoods ==
    {-500, -300, -201, -200, -199, -100, 0, 100, 199, 200, 201, 500}

HungerFactorCall ==
    \E hunger \in FactorLevels :
        Queried("hunger_factor",
                [fn |-> "hunger_factor", x |-> hunger, value |-> hunger_factor(hunger)])

FatigueFactorCall ==
    \E fatigue \in FactorLevels :
        Queried("fatigue_factor",
                [fn |-> "fatigue_factor", x |-> fatigue, value |-> fatigue_factor(fatigue)])

MoodFactorCall ==
    \E mood \in FactorMoods :
        Queried("mood_factor",
                [fn |-> "mood_factor", x |-> mood, value |-> mood_factor(mood)])

Range(s) ==
    {s[i] : i \in 1..Len(s)}

ApplyAnyActionCall ==
    ApplyActionCallOf(Range(ALL_ACTIONS), driver = "apply_action" /\ last.op = "init")

NextFn ==
    \/ OverrideStateCall
    \/ CanTransitionCall
    \/ GetAvailableActionsCall
    \/ ApplyAnyActionCall
    \/ ChooseActionCall
    \/ GatewayOpenCall
    \/ CalculateTimeJumpEffectsCall
    \/ HungerFactorCall
    \/ FatigueFactorCall
    \/ MoodFactorCall

SpecFn ==
    InitFn /\ [][NextFn]_vars

\* ------------------------------------------------------------------ worlds that fork

\* The displacements of the forks, in hours.
ForkHours ==
    {6, -30}

\* The actors of the world that is forked: one at the gateway, and one at
\* work, tired and short of cash, two ticks into an action.
ForkMembers ==
    [a1 |-> SampleActor("Idle", "time_machine_gateway", NoCalendar),
     a2 |-> [ExhaustedActor("Focused_Work", "public_office", WorkCalendar)
                EXCEPT !.cash = 60, !.current_ticks_left = 2,
                       !.substate = "action_start_work"]]

\* The main world with its two actors, and an actor of another world.
\* The tick durations of the worlds that are forked: the default, and
\* WorldClock(current_time=..., tick_duration_minutes=30).
ForkTickDurations ==
    {15, 30}

ForkHeap(mass, tick_duration_minutes) ==
    LET w == new_world(<< >>, MainId, mass, StartTime, ForkMembers)
        timed == [w.heap EXCEPT ![w.heap[w.value].clock].tick_duration_minutes =
                                    tick_duration_minutes]
    IN  new_actor(timed, "a3", << "other" >>,
                  SampleActor("Idle", "home_a", NoCalendar)).heap

\* The Actor objects that are in no world's dict.
Detached(h) ==
    {r \in ActorRefs(h) : \A w \in WorldRefs(h) : r \notin actor_refs(h, w)}

\* The calls on worlds and on the manager.
WorldDrivers ==
    {"fork_world", "WorldManager"}

WorldCallAllowed(d) ==
    /\ driver = d
    /\ nops < MaxOps

\* A call returned: r records it, with the heap and the manager it found.
WorldCalled(r, h, m) ==
    /\ nops' = nops + 1
    /\ heap' = h
    /\ manager' = m
    /\ last' = [last EXCEPT !.op = r.fn]
    /\ ret' = [heap_before |-> heap, manager_before |-> manager] @@ r
    /\ UNCHANGED << actors, clock, prob_mass, driver, due, pre, loop, api >>

\* fork_world(world, actor, target_time) on a world and one of its actors, or
\* an actor of no world.
ForkWorldCall ==
    /\ WorldCallAllowed("fork_world")
    /\ \E w \in WorldRefs(heap), hours \in ForkHours :
       \E a \in actor_refs(heap, w) \cup Detached(heap) :
       \E target_time \in {heap[heap[w].clock].current_time + 60 * hours} :
       \E r \in {fork_world(heap, w, a, target_time, Len(heap))} :
              WorldCalled([fn |-> "fork_world", src_world |-> w, actor |-> a,
                           target_time |-> target_time, raised |-> r.raised,
                           value |-> r.value],
                          r.heap, manager)

\* world.clock.advance_tick()
TickClockCall ==
    /\ WorldCallAllowed("fork_world")
    /\ \E w \in WorldRefs(heap) :
          WorldCalled([fn |-> "advance_tick", world |-> w],
                      [heap EXCEPT ![heap[w].clock] = advance_tick(heap[heap[w].clock])],
                      manager)

\* actor.update_resources(10, 10, 0.5) on an actor of the world.
ChangeActorCall ==
    /\ WorldCallAllowed("fork_world")
    /\ \E w \in WorldRefs(heap) : \E a \in actor_refs(heap, w) :
          WorldCalled([fn |-> "update_resources", world |-> w, actor |-> a],
                      [heap EXCEPT ![a] = update_resources(heap[a], 100, 100, 50)],
                      manager)

\* create_sample_actor(world, name): a new Actor, stamped and stored by
\* add_actor.
AddActorCall ==
    /\ WorldCallAllowed("fork_world")
    /\ \E w \in WorldRefs(heap) :
          /\ "a3" \notin DOMAIN heap[heap[w].actors].items
          /\ LET n == new_actor(heap, "a3", heap[w].world_id,
                                SampleActor("Idle", "home_a", NoCalendar))
                 d == heap[w].actors
             IN  WorldCalled([fn |-> "add_actor", world |-> w, actor |-> n.value],
                             [n.heap EXCEPT ![d].items = ("a3" :> n.value) @@ n.heap[d].items],
                             manager)

\* world.add_actor(actor) with an Actor object that exists, of this world, of
\* another world or of none: the object is stamped and stored under its id.
AddExistingActorCall ==
    /\ WorldCallAllowed("fork_world")
    /\ \E w \in WorldRefs(heap), a \in ActorRefs(heap) :
          LET d == heap[w].actors
          IN  WorldCalled([fn |-> "add_actor(existing)", world |-> w, actor |-> a],
                          [heap EXCEPT ![a].world_id = heap[w].world_id,
                                       ![d].items = (heap[a].id :> a) @@ heap[d].items],
                          manager)

\* world.remove_actor(actor_id)
RemoveActorCall ==
    /\ WorldCallAllowed("fork_world")
    /\ \E w \in WorldRefs(heap) : \E id \in DOMAIN heap[heap[w].actors].items :
          LET d == heap[w].actors
          IN  WorldCalled([fn |-> "remove_actor", world |-> w, id |-> id],
                          [heap EXCEPT ![d].items =
                              [k \in DOMAIN heap[d].items \ {id} |-> heap[d].items[k]]],
                          manager)

\* actor.calendar.append(block) on an actor of the world.
EditCalendarCall ==
    /\ WorldCallAllowed("fork_world")
    /\ \E w \in WorldRefs(heap) : \E a \in actor_refs(heap, w) :
          LET c == heap[a].calendar
          IN  WorldCalled([fn |-> "calendar.append", world |-> w, actor |-> a],
                          [heap EXCEPT ![c].items =
                              Append(heap[c].items,
                                     TimeBlock(StartTime + 600, StartTime + 660, "Eating"))],
                          manager)

\* initialize_world(start_time): a second world with the default id, "main",
\* and no actors, at the same time or half a day later.
InitializeWorldCall ==
    /\ WorldCallAllowed("fork_world")
    /\ \E start_time \in {StartTime, StartTime + 12 * 60} :
       \E w \in {new_world(heap, MainId, NoneMass, start_time, << >>)} :
          WorldCalled([fn |-> "initialize_world", value |-> w.value], w.heap, manager)

\* get_timeline_divergence(world_a, world_b)
GetTimelineDivergenceCall ==
    /\ WorldCallAllowed("fork_world")
    /\ \E world_a \in WorldRefs(heap), world_b \in WorldRefs(heap) :
          WorldCalled([fn |-> "get_timeline_divergence", world_a |-> world_a,
                       world_b |-> world_b,
                       value |-> get_timeline_divergence(heap, world_a, world_b)],
                      heap, manager)

\* min_prob_mass = 0.001, the default of prune_inactive_forks.
DefaultMinProbMass ==
    MassUnit \div 1000

\* A world of one actor and its addition to the manager: the state s is the
\* pair of a heap and a manager.
with_world(s, world_id, mass, substate) ==
    Then(new_world(s.heap, world_id, mass, StartTime,
                   [a1 |-> [SampleActor("Idle", "home_a", NoCalendar)
                               EXCEPT !.substate = substate]]),
         LAMBDA w : [heap |-> w.heap, manager |-> add_world(s.manager, w.heap, w.value)])

NoWorlds ==
    [heap |-> << >>, manager |-> WorldManager]

\* The managers the calls start from: a fresh main world; a main world that
\* was given the whole mass; the main world with three and with four other
\* worlds, with masses above and below the threshold and with and without a
\* time jumper; the main world and a second fresh world.
ManagerScenarios ==
    LET fresh == with_world(NoWorlds, MainId, NoneMass, "None")
        whole == with_world(NoWorlds, MainId, Mass(MassUnit), "None")
        half == Mass(MassUnit \div 2)
        low == Mass(DefaultMinProbMass \div 10)
    IN  {fresh,
         whole,
         with_world(with_world(with_world(whole, << "w2" >>, half, "None"),
                               << "w3" >>, low, "post_time_jump"),
                    << "w4" >>, half, "post_time_jump"),
         with_world(with_world(with_world(with_world(whole, << "w2" >>, half, "None"),
                                          << "w3" >>, half, "None"),
                               << "w4" >>, half, "None"),
                    << "w5" >>, half, "None"),
         with_world(whole, << "w2" >>, NoneMass, "None")}

InitWorlds ==
    /\ driver \in WorldDrivers
    /\ \E s \in (IF driver = "fork_world"
                 THEN {[heap |-> ForkHeap(mass, g), manager |-> WorldManager] :
                          mass \in {NoneMass, Mass(MassUnit)}, g \in ForkTickDurations}
                 ELSE ManagerScenarios) :
          /\ heap = s.heap
          /\ manager = s.manager
    /\ actors = [id \in ActorIds |-> SampleActor("Idle", "home_a", NoCalendar)]
    /\ clock = WorldClock(StartTime)
    /\ prob_mass = NoMass
    /\ loop = NoLoop
    /\ api = NoApi
    /\ InitHistory

\* The ids the calls name: the managed ones and one that is not managed.
NamedIds ==
    {manager.worlds[i].key : i \in 1..Len(manager.worlds)} \cup {<< "ghost" >>}

\* manager.add_world(world) with a world that exists.
AddWorldCall ==
    /\ WorldCallAllowed("WorldManager")
    /\ \E w \in WorldRefs(heap) :
          WorldCalled([fn |-> "add_world", world |-> w],
                      heap, add_world(manager, heap, w))

\* manager.remove_world(world_id)
RemoveWorldCall ==
    /\ WorldCallAllowed("WorldManager")
    /\ \E id \in NamedIds :
          WorldCalled([fn |-> "remove_world", world_id |-> id],
                      heap, remove_world(manager, id))

\* manager.create_fork(source_world_id, actor, target_time) with an actor of
\* the source world, or of the main world when the source is not managed.
CreateForkCall ==
    /\ WorldCallAllowed("WorldManager")
    /\ \E id \in NamedIds :
       \E a \in (IF dict_has(manager.worlds, id)
                 THEN actor_refs(heap, dict_get(manager.worlds, id))
                 ELSE ActorRefs(heap)) :
       \E target_time \in {StartTime + 360} :
       \E r \in {create_fork(manager, heap, id, a, target_time, Len(heap))} :
              WorldCalled([fn |-> "create_fork", source_world_id |-> id, actor |-> a,
                           target_time |-> target_time, raised |-> r.raised,
                           value |-> r.value],
                          r.heap, r.manager)

\* manager.prune_inactive_forks()
PruneInactiveForksCall ==
    /\ WorldCallAllowed("WorldManager")
    /\ \E r \in {prune_inactive_forks(manager, heap, DefaultMinProbMass)} :
           WorldCalled([fn |-> "prune_inactive_forks",
                        min_prob_mass |-> DefaultMinProbMass,
                        raised |-> r.raised, value |-> r.value],
                       heap, r.manager)

\* manager.advance_all_worlds()
AdvanceAllWorldsCall ==
    /\ WorldCallAllowed("WorldManager")
    /\ \E h \in {synchronize_worlds(manager, heap)} :
           WorldCalled([fn |-> "advance_all_worlds"], h, manager)

NextWorlds ==
    \/ ForkWorldCall
    \/ TickClockCall
    \/ ChangeActorCall
    \/ AddActorCall
    \/ AddExistingActorCall
    \/ InitializeWorldCall
    \/ GetTimelineDivergenceCall
    \/ RemoveActorCall
    \/ EditCalendarCall
    \/ AddWorldCall
    \/ RemoveWorldCall
    \/ CreateForkCall
    \/ PruneInactiveForksCall
    \/ AdvanceAllWorldsCall

SpecWorlds ==
    InitWorlds /\ [][NextWorlds]_vars

\* ------------------------------------------------------------------ simulator.run, the loop

\* The worlds a pass of run finds finished.
finished_after(worlds, end_dt) ==
    {id \in DOMAIN worlds : worlds[id].clock.current_time > end_dt}

finished_worlds(worlds, end_dt) ==
    {id \in DOMAIN worlds : worlds[id].clock.current_time >= end_dt}

\* The body of the pass for one world that is not finished: every actor's
\* turn, then the clock.
run_world(world) ==
    {[clock |-> advance_tick(world.clock),
      actors |-> [id \in ActorIds |-> f[id].actor]] :
        f \in Choices([id \in ActorIds |-> run_turn(world.actors[id], world.clock)])}

\* One pass of `while worlds:`: the worlds that are not finished are
\* processed, the finished ones are deleted from the dict.
RECURSIVE run_rest(_, _)
run_rest(worlds, rest) ==
    IF rest = {} THEN {<< >>}
    ELSE Then(CHOOSE i \in rest : TRUE,
              LAMBDA id :
                 Then(run_world(worlds[id]),
                      LAMBDA processed :
                         Then(run_rest(worlds, rest \ {id}),
                              LAMBDA others :
                                 {(id :> world) @@ other :
                                     world \in processed, other \in others})))

run_pass(worlds, end_dt) ==
    run_rest(worlds, DOMAIN worlds \ finished_worlds(worlds, end_dt))

RunWorldIds ==
    {"main", "w2"}

\* The clocks of the worlds run is started on: the default one, a world that
\* is half an hour ahead, and one with ticks of half an hour.
RunClocks ==
    {WorldClock(StartTime), WorldClock(StartTime + 30),
     [WorldClock(StartTime) EXCEPT !.tick_duration_minutes = 30]}

\* The main world's actor has a work block, the second world's actor is in
\* the middle of its sleep.
RunLoopActors ==
    [main |-> SampleActor("Idle", "home_a", WorkCalendar),
     w2 |-> [ExhaustedActor("Sleeping", "home_a", NoCalendar)
                EXCEPT !.current_ticks_left = 8]]

\* An end before the start, at the start, between two ticks and on a tick.
RunEndTimes ==
    {StartTime - 15, StartTime, StartTime + 20, StartTime + 15 * MaxTicks}

RunWorlds ==
    UNION {{[id \in ids |-> [clock |-> c[id],
                             actors |-> [a \in ActorIds |-> RunLoopActors[id]]]] :
               c \in [ids -> RunClocks]} :
              ids \in SUBSET RunWorldIds}

InitRun ==
    /\ driver = "run"
    /\ loop \in [worlds : RunWorlds, end_dt : RunEndTimes, tick_count : {0},
                 returned : {FALSE}]
    /\ actors = [id \in ActorIds |-> SampleActor("Idle", "home_a", NoCalendar)]
    /\ clock = WorldClock(StartTime)
    /\ prob_mass = NoMass
    /\ heap = << >>
    /\ manager = WorldManager
    /\ api = NoApi
    /\ InitHistory

\* One pass of the loop, lines 55-110.
RunPass ==
    /\ ~loop.returned
    /\ DOMAIN loop.worlds # {}
    /\ \E w \in run_pass(loop.worlds, loop.end_dt) :
          loop' = [loop EXCEPT !.worlds = w, !.tick_count = @ + 1]
    /\ UNCHANGED << actors, clock, prob_mass, driver, due, nops, pre, last, ret,
                    heap, manager, api >>

\* `while worlds:` finds the dict empty; the summary is written and run returns.
RunReturn ==
    /\ ~loop.returned
    /\ DOMAIN loop.worlds = {}
    /\ loop' = [loop EXCEPT !.returned = TRUE]
    /\ UNCHANGED << actors, clock, prob_mass, driver, due, nops, pre, last, ret,
                    heap, manager, api >>

NextRun ==
    \/ RunPass
    \/ RunReturn

\* run is sequential code: a pass that can be made is made.
SpecRun ==
    InitRun /\ [][NextRun]_vars /\ WF_vars(RunPass) /\ WF_vars(RunReturn)

\* ------------------------------------------------------------------ api.py

\* Background tasks that start requests add in one behaviour.
MaxTasks == 3

\* end_time = datetime.now() + 24 h is taken from the wall clock, the loop
\* compares it with the world's clock: the loop's end is near or far.
ApiEndTimes ==
    {StartTime + 30, StartTime + 24 * 60}

\* A task added with background_tasks.add_task and not yet started.
QueuedTask ==
    [pc |-> "queued", end_time |-> 0]

\* start_simulation's test: HTTP 400, "Simulation already running".
start_rejected(a) ==
    a.simulation_running

\* The tasks whose loop is between `simulation_running = True` and the
\* finally clause.
LoopsRunning(a) ==
    {t \in 1..Len(a.tasks) : a.tasks[t].pc = "looping"}

InitApi ==
    /\ driver = "api"
    /\ actors = [id \in ActorIds |-> SampleActor("Idle", "home_a", NoCalendar)]
    /\ clock = WorldClock(StartTime)
    /\ prob_mass = NoMass
    /\ heap = << >>
    /\ manager = WorldManager
    /\ loop = NoLoop
    /\ api = NoApi
    /\ InitHistory

ApiStep(op) ==
    /\ driver = "api"
    /\ last' = [last EXCEPT !.op = op]
    /\ UNCHANGED << prob_mass, driver, due, nops, pre, ret, heap, manager, loop >>

\* POST /api/worlds/{world_id}/start for a world the manager has: the
\* handler has no await, it runs from its test to add_task in one piece.
StartSimulation ==
    /\ ApiStep("start_simulation")
    /\ Len(api.tasks) < MaxTasks
    /\ api' = IF start_rejected(api)
              THEN [api EXCEPT !.response = "400"]
              ELSE [api EXCEPT !.tasks = Append(api.tasks, QueuedTask),
                               !.response = "200"]
    /\ UNCHANGED << actors, clock >>

\* POST /api/worlds/{world_id}/stop
StopSimulation ==
    /\ ApiStep("stop_simulation")
    /\ api.tasks # << >>
    /\ api' = [api EXCEPT !.simulation_running = FALSE, !.response = "200"]
    /\ UNCHANGED << actors, clock >>

\* run_simulation starts in its worker thread: the flag is set and end_time
\* is taken.
TaskBegin ==
    \E t \in 1..Len(api.tasks), end_time \in ApiEndTimes :
        /\ ApiStep("run_simulation")
        /\ api.tasks[t].pc = "queued"
        /\ api' = [api EXCEPT !.simulation_running = TRUE,
                              !.tasks[t] = [pc |-> "looping", end_time |-> end_time]]
        /\ UNCHANGED << actors, clock >>

\* One test of the while condition and, when it holds, one pass of the body:
\* the clock's tick, the actors' resources, the broadcast.  A pass that
\* raises, and a condition that fails, lead to the finally clause, which
\* clears the flag.
TaskIterate ==
    \E t \in 1..Len(api.tasks), raises \in BOOLEAN :
        /\ ApiStep("run_simulation")
        /\ api.tasks[t].pc = "looping"
        /\ clock.tick_count < MaxTicks
        /\ IF clock.current_time < api.tasks[t].end_time /\ api.simulation_running
           THEN /\ clock' = advance_tick(clock)
                /\ actors' = [id \in ActorIds |-> update_resources(actors[id], 10, 5, 0)]
                /\ api' = IF raises
                          THEN [api EXCEPT !.simulation_running = FALSE,
                                           !.tasks[t].pc = "done"]
                          ELSE api
           ELSE /\ ~raises
                /\ api' = [api EXCEPT !.simulation_running = FALSE,
                                      !.tasks[t].pc = "done"]
                /\ UNCHANGED << actors, clock >>

NextApi ==
    \/ StartSimulation
    \/ StopSimulation
    \/ TaskBegin
    \/ TaskIterate

SpecApi ==
    InitApi /\ [][NextApi]_vars

\* ------------------------------------------------------------------ claims

\* C1: after every operation every bounded resource of every actor is in its
\* range: hunger and fatigue in [0,100], mood in [-2,2], energy and battery in
\* [0,100], cash >= 0.
ResourcesInRange ==
    \A id \in ActorIds :
        /\ 0 <= actors[id].hunger /\ actors[id].hunger <= 1000
        /\ 0 <= actors[id].fatigue /\ actors[id].fatigue <= 1000
        /\ -200 <= actors[id].mood /\ actors[id].mood <= 200
        /\ 0 <= actors[id].energy /\ actors[id].energy <= 1000
        /\ 0 <= actors[id].battery /\ actors[id].battery <= 1000
        /\ actors[id].cash >= 0

\* A call of update_resources whose deltas would have taken hunger below 0.
ResourcesClampedReached ==
    /\ last.op = "update_resources"
    /\ pre.actors["a1"].hunger > 0
    /\ actors["a1"].hunger = 0
    /\ actors["a1"].mood = -200

DriverOps ==
    {"run", "simulate_until_condition", "run_parallel_simulation"}

DecisionBranches ==
    {"calendar_forced", "probability_selected"}

\* C2: in a driver tick an actor whose current_ticks_left > 0 only has the
\* counter decremented and takes the busy branch; an actor that an action of
\* duration d was applied to at tick t is busy in every tick before t+d and
\* decides again in tick t+d; the counter is never negative.
BusyOnlyDecrements ==
    \A id \in ActorIds :
        /\ actors[id].current_ticks_left >= 0
        /\ last.op \in DriverOps =>
              /\ pre.actors[id].current_ticks_left > 0 =>
                    /\ last.branch[id] = "busy"
                    /\ actors[id] = [pre.actors[id] EXCEPT
                                        !.current_ticks_left = @ - 1]
              /\ pre.due[id] # -1 =>
                    /\ last.branch[id] = "busy" => pre.clock.tick_count < pre.due[id]
                    /\ last.branch[id] # "busy" => pre.clock.tick_count = pre.due[id]
              /\ last.branch[id] \in DecisionBranches =>
                    due[id] = pre.clock.tick_count
                                 + ActionNamed(last.action[id]).duration_ticks

\* An actor decides in tick 3, the tick its action of tick 0 ended on, after
\* two busy ticks.
NextDecisionReached ==
    /\ last.op \in DriverOps
    /\ last.branch["a1"] \in DecisionBranches
    /\ pre.due["a1"] = 3
    /\ pre.clock.tick_count = 3
    /\ pre.actors["a1"].current_ticks_left = 0

\* The core actions, in catalog order, that lead to state s and pass the
\* location, mood, resource-bound and cash checks for the actor.
EligibleCore(s, actor) ==
    SelectSeq(CORE_ACTIONS,
              LAMBDA a :
                  /\ a.resulting_state = s
                  /\ a.location_req.none \/ actor.location_id \in a.location_req.ids
                  /\ a.allowed_moods[1] <= actor.mood /\ actor.mood <= a.allowed_moods[2]
                  /\ actor.hunger + a.hunger_delta \in 0..1000
                  /\ actor.fatigue + a.fatigue_delta \in 0..1000
                  /\ actor.cash + a.cash_delta >= 0)

\* C3: in a tick of run, a non-busy actor with a calendar override S gets the
\* first core-catalog action that leads to S and passes the four checks, and
\* no probabilistic selection; with no such action it ends the tick Idle with
\* substate "calendar_conflict".
CalendarForcedFirst ==
    \A id \in ActorIds :
        LET before == pre.actors[id]
            S == override_state(before, pre.clock)
            eligible == EligibleCore(S, before)
        IN  (last.op = "run" /\ before.current_ticks_left = 0 /\ S # "None") =>
                IF eligible # << >>
                THEN /\ last.branch[id] = "calendar_forced"
                     /\ last.action[id] = eligible[1].name
                     /\ actors[id] = apply_action(eligible[1], before, 0).actor
                     /\ actors[id].state = S
                ELSE /\ last.branch[id] = "calendar_conflict"
                     /\ last.action[id] = "None"
                     /\ actors[id] = [before EXCEPT !.state = "Idle",
                                                    !.substate = "calendar_conflict"]

\* A forced action was taken in run where a later core action was eligible too.
CalendarForcedReached ==
    /\ last.op = "run"
    /\ last.branch["a1"] = "calendar_forced"
    /\ Len(EligibleCore(override_state(pre.actors["a1"], pre.clock),
                        pre.actors["a1"])) >= 2

\* The indices of the calendar blocks that cover instant t under [start, end).
Covering(actor, t) ==
    {i \in 1..Len(actor.calendar) :
        actor.calendar[i].start_dt <= t /\ t < actor.calendar[i].end_dt}

QualifyingLocations(required_state) ==
    CASE required_state = "Focused_Work" -> {"public_office"} \cup HomeLocations
      [] required_state = "In_Meeting" -> {"public_office", "public_restaurant"}
      [] required_state = "Exercising" ->
            {"public_gym", "public_park", "public_walking_path"} \cup HomeLocations
      [] required_state = "Shopping" -> {"public_mall", "public_grocery_store"}
      [] required_state = "Socialising" ->
            {"public_coffee_shop", "public_restaurant", "public_bar", "public_park",
             "public_office"}
      [] OTHER -> Locations

OverrideProcedure(actor, t) ==
    LET covering == Covering(actor, t)
        first == CHOOSE i \in covering : \A j \in covering : i <= j
        required == actor.calendar[first].required_state
    IN  IF covering = {} THEN "None"
        ELSE IF actor.fatigue >= 950 THEN "Idle"
        ELSE IF actor.hunger >= 900 /\ required \notin {"Eating", "Sleeping"} THEN "Idle"
        ELSE IF actor.mood <= -180 /\ required \in {"Socialising", "In_Meeting"} THEN "Idle"
        ELSE IF actor.cash <= 0 /\ required \in {"Shopping", "Leisure"} THEN "Idle"
        ELSE IF actor.location_id \notin QualifyingLocations(required) THEN "Transitioning"
        ELSE required

\* C4: override_state returns None iff no block covers the clock's time under
\* [start, end); otherwise Idle on fatigue >= 95, else Idle on hunger >= 90
\* unless the required state is Eating or Sleeping, else Idle on mood <= -1.8
\* for Socialising or In_Meeting, else Idle on cash <= 0 for Shopping or
\* Leisure, else Transitioning away from the qualifying locations of the
\* required state, else the required state of the first covering block.
OverrideStateProcedure ==
    ret.fn = "override_state" =>
        /\ ret.value = OverrideProcedure(actors[ret.id], clock.current_time)
        /\ ret.value = "None" <=> Covering(actors[ret.id], clock.current_time) = {}

\* The fatigue escape taken although hunger, mood and cash are fine and the
\* actor is where the required state wants it.
OverrideFatigueReached ==
    /\ ret.fn = "override_state"
    /\ ret.value = "Idle"
    /\ actors["a1"].fatigue = 950
    /\ actors["a1"].hunger < 900
    /\ actors["a1"].calendar[1].required_state = "Focused_Work"
    /\ actors["a1"].location_id = "public_office"

TickOps ==
    DriverOps \cup {"advance_world"}

\* C5: an actor that starts a tick with fatigue >= 96 and no calendar entry,
\* in any core state, is in state Sleeping after that tick, whichever loop
\* made the tick and whichever branch the actor took.
EmergencySleepEveryTick ==
    \A id \in ActorIds :
        (/\ last.op \in TickOps
         /\ pre.actors[id].fatigue >= 960
         /\ pre.actors[id].calendar = << >>
         /\ is_core_state(pre.actors[id].state)) =>
            actors[id].state = "Sleeping"

\* The same under advance_world alone, the one loop that calls
\* _check_automatic_transitions.
EmergencySleepAdvanceWorld ==
    \A id \in ActorIds :
        (/\ last.op = "advance_world"
         /\ pre.actors[id].fatigue >= 960
         /\ pre.actors[id].calendar = << >>
         /\ is_core_state(pre.actors[id].state)) =>
            actors[id].state = "Sleeping"

\* advance_world forced an exhausted, working actor to sleep.
EmergencySleepReached ==
    /\ last.op = "advance_world"
    /\ pre.actors["a1"].fatigue >= 960
    /\ pre.actors["a1"].state = "Focused_Work"
    /\ actors["a1"].state = "Sleeping"

\* The resources an actor has after the decay of its state is applied to r.
Decayed(r, state) ==
    [hunger |-> Clamp(0, 1000, r.hunger + hunger_rate(state)),
     fatigue |-> Clamp(0, 1000, r.fatigue + fatigue_rate(state)),
     mood |-> Clamp(-200, 200, r.mood + mood_modifiers(state))]

Resources(actor) ==
    [hunger |-> actor.hunger, fatigue |-> actor.fatigue, mood |-> actor.mood]

\* C6: in every tick the state-keyed decay is applied once to every actor:
\* a busy actor of a driver loop, to which no action is applied, ends the tick
\* with its resources changed by the rates of its state, as an actor of
\* advance_world does.
DecayEveryTick ==
    \A id \in ActorIds :
        (\/ last.op = "advance_world"
         \/ last.op \in DriverOps /\ last.branch[id] = "busy") =>
            Resources(actors[id]) = Decayed(Resources(pre.actors[id]), pre.actors[id].state)

\* The decay as advance_world applies it.
DecayAdvanceWorld ==
    \A id \in ActorIds :
        last.op = "advance_world" =>
            Resources(actors[id]) = Decayed(Resources(pre.actors[id]), pre.actors[id].state)

\* advance_world changed all three resources of an actor.
DecayReached ==
    /\ last.op = "advance_world"
    /\ actors["a1"].hunger # pre.actors["a1"].hunger
    /\ actors["a1"].fatigue # pre.actors["a1"].fatigue
    /\ actors["a1"].mood # pre.actors["a1"].mood

\* The adjacency set of a core state.
Adjacent(current_state) ==
    CASE current_state = "Sleeping" -> {"Waking_Up"}
      [] current_state = "Waking_Up" -> {"Idle", "Eating"}
      [] current_state = "Idle" ->
            {"Driving", "Walking", "Focused_Work", "Eating", "Transitioning"}
      [] current_state = "Transitioning" -> CoreStates
      [] current_state \in {"Driving", "Walking"} -> {"Idle", "Transitioning"}
      [] current_state = "Focused_Work" -> {"Idle", "Transitioning", "Eating"}
      [] current_state = "Eating" -> {"Idle", "Transitioning"}
      [] OTHER -> State

TransitionTable(current_state, new_state) ==
    IF new_state \in ExtendedStates THEN FALSE
    ELSE IF new_state \in {"Transitioning", "Sleeping"} THEN TRUE
    ELSE new_state \in Adjacent(current_state)

\* C7: can_transition is false for an extended target, else true for
\* Transitioning or Sleeping, else membership of the target in the adjacency
\* set of the current state, with every core target allowed from an extended
\* current state.
CanTransitionTable ==
    ret.fn = "can_transition" =>
        ret.value = TransitionTable(actors[ret.id].state, ret.new_state)

\* Idle to Idle is refused.
CanTransitionReached ==
    /\ ret.fn = "can_transition"
    /\ actors["a1"].state = "Idle"
    /\ ret.new_state = "Idle"
    /\ ret.value = FALSE

\* The five predicates of the filter, and the actions of a pool that pass them.
Eligible(a, actor, core_only) ==
    /\ a.location_req.none \/ actor.location_id \in a.location_req.ids
    /\ a.allowed_moods[1] <= actor.mood /\ actor.mood <= a.allowed_moods[2]
    /\ actor.hunger + a.hunger_delta \in 0..1000
    /\ actor.fatigue + a.fatigue_delta \in 0..1000
    /\ actor.cash + a.cash_delta >= 0
    /\ core_only => a.resulting_state \in CoreStates

Pool(core_only) ==
    IF core_only
    THEN << GO_TO_SLEEP, WAKE_UP, STAY_IDLE, START_TRANSITION, DRIVE_TO_OFFICE,
            DRIVE_HOME, WALK_TO_PARK, WALK_TO_COFFEE_SHOP, START_WORK, EAT_MEAL,
            GRAB_SNACK >>
    ELSE ALL_ACTIONS

\* C8: get_available_actions returns exactly the actions of the mode's pool,
\* in catalog order, that pass the location, mood, resource-bound and cash
\* predicates and, in core-only mode, lead to a core state.
AvailableExactFilter ==
    ret.fn = "get_available_actions" =>
        LET actor == actors[ret.id]
            pool == Pool(ret.core_only)
        IN  /\ ret.value = SelectSeq(pool, LAMBDA a : Eligible(a, actor, ret.core_only))
            /\ \A i \in 1..Len(ret.value) : Eligible(ret.value[i], actor, ret.core_only)
            /\ \A i \in 1..Len(pool) :
                  Eligible(pool[i], actor, ret.core_only) =>
                      \E j \in 1..Len(ret.value) : ret.value[j] = pool[i]
            /\ Len(Pool(TRUE)) = 11 /\ Len(Pool(FALSE)) = 44

\* A full-catalog call that kept some actions and dropped one for cash alone.
AvailableReached ==
    /\ ret.fn = "get_available_actions"
    /\ ~ret.core_only
    /\ Len(ret.value) >= 2
    /\ \E i \in 1..Len(ALL_ACTIONS) :
          /\ Eligible(ALL_ACTIONS[i], [actors["a1"] EXCEPT !.cash = 1000], FALSE)
          /\ ~Eligible(ALL_ACTIONS[i], actors["a1"], FALSE)

\* C9: a successful apply_action leaves state = the action's resulting state,
\* location_id = next_location if the action has one and unchanged otherwise,
\* hunger and fatigue changed by the action's deltas and clamped to [0,100],
\* mood unchanged, cash = max(0, cash + cash_delta) and current_ticks_left =
\* duration_ticks - 1.
ApplyActionPostcondition ==
    \A id \in ActorIds :
        (last.op = "apply_action" /\ last.branch[id] = "call" /\ last.ok) =>
            LET action == ActionNamed(last.action[id])
                before == pre.actors[id]
                after == actors[id]
            IN  /\ after.state = action.resulting_state
                /\ after.location_id = IF action.next_location # "None"
                                       THEN action.next_location
                                       ELSE before.location_id
                /\ after.hunger = Max(0, Min(1000, before.hunger + action.hunger_delta))
                /\ after.fatigue = Max(0, Min(1000, before.fatigue + action.fatigue_delta))
                /\ after.mood = before.mood
                /\ after.cash = Max(0, before.cash + action.cash_delta)
                /\ after.current_ticks_left = action.duration_ticks - 1

\* A successful call that moved the actor, clamped its fatigue and floored its
\* cash.
ApplyActionReached ==
    /\ last.op = "apply_action"
    /\ last.ok
    /\ actors["a1"].location_id # pre.actors["a1"].location_id
    /\ actors["a1"].fatigue = 1000
    /\ pre.actors["a1"].fatigue < 1000
    /\ actors["a1"].cash = 0
    /\ pre.actors["a1"].cash > 0

ObservableFields(actor) ==
    [state |-> actor.state, substate |-> actor.substate,
     location_id |-> actor.location_id, hunger |-> actor.hunger,
     fatigue |-> actor.fatigue, mood |-> actor.mood, cash |-> actor.cash,
     current_ticks_left |-> actor.current_ticks_left]

\* C10: a call of apply_action that returns False leaves the actor's state,
\* substate, location_id, hunger, fatigue, mood, cash and current_ticks_left
\* as they were before the call.
ApplyActionFailureUnchanged ==
    \A id \in ActorIds :
        (last.op = "apply_action" /\ last.branch[id] = "call" /\ ~last.ok) =>
            ObservableFields(actors[id]) = ObservableFields(pre.actors[id])

\* The actions of the mode's pool that are eligible for the actor.
EligibleActions(actor, core_only) ==
    SelectSeq(Pool(core_only), LAMBDA a : Eligible(a, actor, core_only))

\* What a call of choose_action may return.
ChooseActionAnswer(r) ==
    LET eligible == EligibleActions(actors[r.id], r.core_only)
    IN  IF r.fault \in {"filter", "probability", "sampling"}
        THEN r.value = IF eligible = << >> THEN << >> ELSE << eligible[1] >>
        ELSE /\ r.value = << >> <=> eligible = << >>
             /\ r.value # << >> =>
                   \/ \E i \in 1..Len(eligible) : eligible[i] = r.value[1]
                   \/ r.value[1] = TIME_JUMP

\* C11: choose_action never raises: with an error in the filter, the
\* probability calculation, the gateway evaluation or the sampling it returns
\* the first eligible action, or None if there is none; without an error it
\* returns None iff no action is eligible and otherwise an eligible action or
\* the time-jump action.
ChooseActionNeverRaises ==
    ret.fn = "choose_action" => ~ret.raised /\ ChooseActionAnswer(ret)

\* The same with the errors of the filter left aside; an error inside the
\* gateway evaluation counts as a closed gateway.
ChooseActionLaterFaultsCaught ==
    (ret.fn = "choose_action" /\ ret.fault # "filter") =>
        ~ret.raised /\ ChooseActionAnswer(ret)

\* An exception of the filter left choose_action.
ChooseActionRaisedReached ==
    /\ ret.fn = "choose_action"
    /\ ret.fault = "filter"
    /\ ret.raised

\* C12: a turn of run_parallel_simulation chooses the time-jump action (and
\* calls create_fork for the actor) only in a tick where gateway_open is true
\* of the actor and the clock; the core-only drivers never choose it.
TimeJumpOnlyThroughOpenGateway ==
    \A id \in ActorIds :
        /\ (last.op = "run_parallel_simulation" /\ last.action[id] = TIME_JUMP.name)
              => gateway_open(pre.actors[id], pre.clock)
        /\ last.op \in {"run", "simulate_until_condition"}
              => last.action[id] # TIME_JUMP.name

\* The time-jump action was chosen at the gateway location at 09:00, outside
\* the jump hours.
TimeJumpGatewayClosedReached ==
    \E id \in ActorIds :
        /\ last.op = "run_parallel_simulation"
        /\ last.action[id] = TIME_JUMP.name
        /\ pre.actors[id].location_id = "time_machine_gateway"
        /\ hour_of(pre.clock.current_time) = 9
        /\ ~gateway_open(pre.actors[id], pre.clock)

\* The part of C12 about the core-only drivers.
CoreDriversNeverJump ==
    \A id \in ActorIds :
        last.op \in {"run", "simulate_until_condition"}
            => last.action[id] # TIME_JUMP.name

\* The gates of the time gateway, on the actor and the minutes since midnight
\* of day 0.  Resources are in tenths, mood in hundredths.
AllGatesHold(actor, minutes) ==
    LET hour == (minutes \div 60) % 24
    IN  /\ actor.location_id = "time_machine_gateway"
        /\ hour \in {6, 7, 22, 23}
        /\ actor.mood >= 0
        /\ actor.fatigue < 800
        /\ actor.hunger < 700
        /\ actor.cash >= 50
        /\ actor.energy >= 300
        /\ actor.battery >= 200

\* C13: gateway_open is true iff all gates hold together (gateway location,
\* hour in [6,8) or >= 22, mood >= 0, fatigue < 80, hunger < 70, cash >= 50,
\* energy >= 30, battery >= 20), so that a single failing gate closes it; an
\* error during evaluation yields false.
GatewayOpenIffAllGates ==
    ret.fn = "gateway_open" =>
        ret.value = (~ret.raises /\ AllGatesHold(actors[ret.id], clock.current_time))

\* The gateway answered False to an actor that fails the battery gate alone.
GatewayOpenReached ==
    /\ ret.fn = "gateway_open"
    /\ ~ret.raises
    /\ actors[ret.id].battery < 200
    /\ AllGatesHold([actors[ret.id] EXCEPT !.battery = 200], clock.current_time)
    /\ ~ret.value

\* The last call was fork_world on a world and one of that world's actors.
ForkOfOwnActor ==
    /\ ret.fn = "fork_world"
    /\ ret.actor \in actor_refs(ret.heap_before, ret.src_world)

\* What fork_world returned is a new world whose id differs from the
\* source's and contains "_fork_", with the source's actor ids, the target
\* instant on its clock and its id on every actor.
ForkIsStampedCopy ==
    LET source == ret.heap_before[ret.src_world]
        fork == heap[ret.value]
    IN  /\ ~ret.raised
        /\ ret.value \notin DOMAIN ret.heap_before
        /\ fork.kind = "WorldState"
        /\ fork.world_id # source.world_id
        /\ is_fork_id(fork.world_id)
        /\ DOMAIN heap[fork.actors].items = DOMAIN ret.heap_before[source.actors].items
        /\ heap[fork.clock].current_time = ret.target_time
        /\ \A r \in actor_refs(heap, ret.value) : heap[r].world_id = fork.world_id

\* C14: for any source world, a freshly initialized one included, and any
\* actor in it, fork_world returns a new world whose id differs from the
\* source's and contains "_fork_", with the same actor ids, the target instant
\* on its clock and its id as every actor's world_id.
ForkWorldReturnsStampedCopy ==
    ForkOfOwnActor => ForkIsStampedCopy

\* The same for the source worlds whose prob_mass is a number.
ForkOfWeightedWorldReturnsStampedCopy ==
    (ForkOfOwnActor /\ ~ret.heap_before[ret.src_world].prob_mass.none)
        => ForkIsStampedCopy

\* fork_world raised on a world whose prob_mass is None, as initialize_world
\* leaves it.
ForkOfFreshWorldRaisedReached ==
    /\ ForkOfOwnActor
    /\ ret.heap_before[ret.src_world].prob_mass.none
    /\ ret.raised

\* fork_world returned a fork.
ForkReturnedReached ==
    ForkOfOwnActor /\ ~ret.raised

\* The value of an actor after the jump-cost bundle of a displacement of
\* the given minutes: resources in tenths and mood in hundredths, clamped to
\* their ranges, cash floored at 0.
WithJumpCosts(actor, minutes) ==
    LET e == calculate_time_jump_effects(minutes)
    IN  [actor EXCEPT
            !.hunger = Clamp(0, 1000, actor.hunger + e.hunger_delta),
            !.fatigue = Clamp(0, 1000, actor.fatigue + e.fatigue_delta),
            !.mood = Clamp(-200, 200, actor.mood + e.mood_delta),
            !.energy = Clamp(0, 1000, actor.energy + e.energy_delta),
            !.battery = Clamp(0, 1000, actor.battery + e.battery_delta),
            !.cash = IF actor.cash + e.cash_delta < 0 THEN 0 ELSE actor.cash + e.cash_delta]

WorldMutations ==
    {"advance_tick", "update_resources", "add_actor", "remove_actor", "calendar.append"}

\* A caller put one Actor object into the dicts of two worlds, with add_actor
\* of an actor that exists.
ActorInTwoDicts(h) ==
    \E w1 \in WorldRefs(h), w2 \in WorldRefs(h) :
        /\ h[w1].actors # h[w2].actors
        /\ actor_refs(h, w1) \cap actor_refs(h, w2) # {}

ForkCreated ==
    /\ ret.fn = "create_fork"
    /\ ret.raised = "None"

\* The masses around the last create_fork: of the source before the call, of
\* the source after it and of the new fork.
ForkMasses ==
    LET source == dict_get(ret.manager_before.worlds, ret.source_world_id)
    IN  [original |-> ret.heap_before[source].prob_mass.units,
         source |-> heap[source].prob_mass.units,
         fork |-> heap[dict_get(manager.worlds, ret.value)].prob_mass.units]

\* A millionth of the unit of mass, the tolerance of the comparison.
MassTolerance ==
    MassUnit \div (1000 * 1000)

\* C17: create_fork conserves the probability mass: the source's mass and
\* the new fork's mass add up to the source's mass of before the call, within
\* tolerance, the fork holding the jump-insertion share of it and the source
\* the complement.
ForkConservesMass ==
    ForkCreated =>
        /\ ForkMasses.source + ForkMasses.fork - ForkMasses.original
              \in -MassTolerance..MassTolerance
        /\ ForkMasses.fork = jump_share(ForkMasses.original)
        /\ ForkMasses.source = jump_complement(ForkMasses.original)

\* A create_fork on a world holding the whole mass left 0.9604 in the source
\* and 0.0196 in the fork: 0.98 in all.
ForkLostMassReached ==
    /\ ForkCreated
    /\ ForkMasses.original = MassUnit
    /\ ForkMasses.source = 9604 * 10000
    /\ ForkMasses.fork = 196 * 10000

\* C18: a fork_world that fails raises and leaves the source world exactly as
\* it was: the jumping actor's state and substate, every actor, the clock and
\* prob_mass are unchanged, and a create_fork that fails so adds no world to
\* the manager.
ForkFailureLeavesSourceIntact ==
    /\ (ret.fn = "fork_world" /\ ret.raised)
          => \A w \in WorldRefs(ret.heap_before) :
                WorldView(heap, w) = WorldView(ret.heap_before, w)
    /\ (ret.fn = "create_fork" /\ ret.raised = "RuntimeError")
          => /\ manager = ret.manager_before
             /\ \A w \in WorldRefs(ret.heap_before) :
                   WorldView(heap, w) = WorldView(ret.heap_before, w)

\* The part of C18 about the manager: a create_fork whose fork_world raised
\* leaves worlds, active_forks and fork_history as they were.
ForkFailureAddsNoWorld ==
    (ret.fn = "create_fork" /\ ret.raised = "RuntimeError")
        => manager = ret.manager_before

\* fork_world raised on an actor at work and left it Idle, "time_jumped_away"
\* in the source world.
ForkFailureMarkedSourceReached ==
    /\ ret.fn = "fork_world"
    /\ ret.raised
    /\ ret.heap_before[ret.actor].state = "Focused_Work"
    /\ ret.actor \in actor_refs(heap, ret.src_world)
    /\ heap[ret.actor].state = "Idle"
    /\ heap[ret.actor].substate = "time_jumped_away"

\* The place of a key among the keys of the manager before the last call.
KeyPlace(key) ==
    CHOOSE i \in 1..Len(ret.manager_before.worlds) :
        ret.manager_before.worlds[i].key = key

\* The facts prune_inactive_forks decides on, for a world managed before the
\* call: its mass, whether one of its actors has a "time_jump" substate, and
\* how many worlds were managed when its turn came.
PruneFacts(key) ==
    LET world == dict_get(ret.manager_before.worlds, key)
        removed_earlier == {i \in 1..Len(ret.value) : KeyPlace(ret.value[i]) < KeyPlace(key)}
    IN  [prob_mass |-> ret.heap_before[world].prob_mass,
         jumper |-> \E id \in DOMAIN WorldView(ret.heap_before, world).actors :
                       WorldView(ret.heap_before, world).actors[id].substate
                           \in {"post_time_jump", "time_jumped_away", "action_time_jump"},
         managed |-> Len(ret.manager_before.worlds) - Cardinality(removed_earlier)]

\* What the claim says of a call of prune_inactive_forks that returned.
PruneProcedure ==
    LET before == Range(dict_keys(ret.manager_before.worlds))
        after == Range(dict_keys(manager.worlds))
        main == ret.manager_before.main_world_id
    IN  /\ ~ret.raised
        /\ main \in before => main \in after
        /\ Range(ret.value) = before \ after
        /\ Cardinality(Range(ret.value)) = Len(ret.value)
        /\ after \subseteq before
        /\ \A key \in before \ {main} :
              IF PruneFacts(key).prob_mass.units < ret.min_prob_mass
              THEN key \notin after
              ELSE key \notin after <=>
                      (~PruneFacts(key).jumper /\ PruneFacts(key).managed > 3)

\* C19: prune_inactive_forks never removes the main world, removes every
\* non-main world whose mass is below the threshold, removes a non-main world
\* without a time jumper only while more than three worlds are managed, and
\* returns exactly the ids it removed.
PruneInactiveForksContract ==
    ret.fn = "prune_inactive_forks" => PruneProcedure

\* The non-main worlds managed before the last call all had a number as mass.
PruneOnWeightedWorlds ==
    \A i \in 1..Len(ret.manager_before.worlds) :
        \/ ret.manager_before.worlds[i].key = ret.manager_before.main_world_id
        \/ ~ret.heap_before[ret.manager_before.worlds[i].value].prob_mass.none

\* The same for the managers whose non-main worlds all have a mass.
PruneOfWeightedWorldsContract ==
    (ret.fn = "prune_inactive_forks" /\ PruneOnWeightedWorlds) => PruneProcedure

\* prune_inactive_forks raised on a manager holding a second fresh world.
PruneRaisedReached ==
    /\ ret.fn = "prune_inactive_forks"
    /\ ret.raised
    /\ ~PruneOnWeightedWorlds

\* Of five worlds without a time jumper the pruning removed two and stopped
\* at three.
PruneStoppedAtThreeReached ==
    /\ ret.fn = "prune_inactive_forks"
    /\ ~ret.raised
    /\ Len(ret.manager_before.worlds) = 5
    /\ Len(ret.value) = 2
    /\ Len(manager.worlds) = 3

\* What the claim says of a create_fork on a managed source: one world more,
\* under the returned id, which differs from the source's, is in active_forks
\* and is the last entry of the source's lineage.
ForkRegistered ==
    LET before == Range(dict_keys(ret.manager_before.worlds))
        after == Range(dict_keys(manager.worlds))
    IN  /\ ret.raised = "None"
        /\ ret.value \notin before
        /\ after = before \cup {ret.value}
        /\ Len(manager.worlds) = Len(ret.manager_before.worlds) + 1
        /\ ret.value # ret.source_world_id
        /\ in_list(manager.active_forks, ret.value)
        /\ ret.source_world_id \in DOMAIN manager.fork_history
        /\ manager.fork_history[ret.source_world_id] =
              Append(IF ret.source_world_id \in DOMAIN ret.manager_before.fork_history
                     THEN ret.manager_before.fork_history[ret.source_world_id]
                     ELSE << >>,
                     ret.value)

\* C20: create_fork on a managed source world adds exactly one world: the
\* returned id is a key of worlds, differs from the source id, is in
\* active_forks and is appended to fork_history of the source; a source id
\* that is not managed raises ValueError and leaves worlds, active_forks and
\* fork_history unchanged.
CreateForkContract ==
    ret.fn = "create_fork" =>
        IF dict_has(ret.manager_before.worlds, ret.source_world_id)
        THEN ForkRegistered
        ELSE ret.raised = "ValueError" /\ manager = ret.manager_before

\* The same for the managed sources whose prob_mass is a number, and for the
\* sources that are not managed.
CreateForkOfWeightedWorldContract ==
    ret.fn = "create_fork" =>
        IF ~dict_has(ret.manager_before.worlds, ret.source_world_id)
        THEN ret.raised = "ValueError" /\ manager = ret.manager_before
        ELSE \/ ret.heap_before[dict_get(ret.manager_before.worlds,
                                         ret.source_world_id)].prob_mass.none
             \/ ForkRegistered

\* create_fork on the fresh main world raised and added nothing.
CreateForkOfFreshWorldRaisedReached ==
    /\ ret.fn = "create_fork"
    /\ ret.source_world_id = MainId
    /\ ret.heap_before[dict_get(ret.manager_before.worlds, MainId)].prob_mass.none
    /\ ret.raised = "RuntimeError"
    /\ Len(manager.worlds) = 1

\* A second fork of the same source was appended to its lineage.
CreateForkAppendedReached ==
    /\ ret.fn = "create_fork"
    /\ ret.raised = "None"
    /\ Len(manager.fork_history[ret.source_world_id]) = 2

\* create_fork raised ValueError for an id that is not managed.
CreateForkUnmanagedReached ==
    /\ ret.fn = "create_fork"
    /\ ret.raised = "ValueError"
    /\ Len(manager.worlds) > 0

\* The worlds managed before the last call, as references.
ManagedBefore ==
    {ret.manager_before.worlds[i].value : i \in 1..Len(ret.manager_before.worlds)}

\* What the claim says of one world after advance_all_worlds: its clock is one
\* tick further and its mass, or the normalized mass 1 / (number of worlds)
\* if it had none, is multiplied by 0.999, to the unit of mass.
AdvancedAndDecayed(w) ==
    LET clock_before == ret.heap_before[ret.heap_before[w].clock]
        clock_after == heap[heap[w].clock]
        mass_before == ret.heap_before[w].prob_mass
        start == IF mass_before.none
                 THEN MassUnit \div Len(ret.manager_before.worlds)
                 ELSE mass_before.units
    IN  /\ clock_after.current_time
              = clock_before.current_time + clock_before.tick_duration_minutes
        /\ clock_after.tick_count = clock_before.tick_count + 1
        /\ ~heap[w].prob_mass.none
        /\ heap[w].prob_mass.units - (start - start \div 1000) \in -1..1

\* C21: advance_all_worlds advances the clock of every managed world by one
\* tick and multiplies every world's mass by the decay factor in the same
\* step; a world without a mass is first given a normalized one and does not
\* block the decay of the others.
AdvanceAllTicksAndDecays ==
    ret.fn = "advance_all_worlds" => \A w \in ManagedBefore : AdvancedAndDecayed(w)

\* The same for the managers whose worlds all have a number as mass.
AdvanceAllOfWeightedWorlds ==
    (ret.fn = "advance_all_worlds"
     /\ \A w \in ManagedBefore : ~ret.heap_before[w].prob_mass.none)
        => \A w \in ManagedBefore : AdvancedAndDecayed(w)

\* The clocks advance whatever the masses are.
AdvanceAllTicksClocks ==
    ret.fn = "advance_all_worlds" =>
        \A w \in ManagedBefore :
            heap[heap[w].clock] = advance_tick(ret.heap_before[ret.heap_before[w].clock])

\* A world with mass 1.0 kept it through advance_all_worlds because a second
\* world had none.
AdvanceAllBlockedReached ==
    /\ ret.fn = "advance_all_worlds"
    /\ Len(ret.manager_before.worlds) = 2
    /\ \E w \in ManagedBefore : ret.heap_before[w].prob_mass.none
    /\ \E w \in ManagedBefore :
          /\ ret.heap_before[w].prob_mass = Mass(MassUnit)
          /\ heap[w].prob_mass = Mass(MassUnit)

\* Four worlds with masses were advanced and decayed.
AdvanceAllDecayedReached ==
    /\ ret.fn = "advance_all_worlds"
    /\ Len(ret.manager_before.worlds) = 4
    /\ \A w \in ManagedBefore : AdvancedAndDecayed(w)

\* What one pass of run does to the worlds it finds: a world whose clock is
\* before end_dt is ticked once, a world whose clock has reached end_dt is
\* not ticked and is gone after the pass, and no world appears.
RunPassStep ==
    loop'.tick_count = loop.tick_count + 1 =>
        /\ DOMAIN loop'.worlds \subseteq DOMAIN loop.worlds
        /\ \A id \in DOMAIN loop.worlds :
              LET before == loop.worlds[id].clock
              IN  IF before.current_time < loop.end_dt
                  THEN /\ id \in DOMAIN loop'.worlds
                       /\ loop'.worlds[id].clock.current_time
                             = before.current_time + before.tick_duration_minutes
                       /\ loop'.worlds[id].clock.tick_count = before.tick_count + 1
                  ELSE id \notin DOMAIN loop'.worlds

\* C22: run terminates for every finite end time: a pass ticks every world
\* whose clock is before end_dt once and removes every world whose clock has
\* reached end_dt without ticking it, and the loop ends, with no world left.
RunTerminates ==
    /\ [][RunPassStep]_vars
    /\ [](loop.returned => DOMAIN loop.worlds = {})
    /\ <>loop.returned

\* run returned after five passes: four ticks of a quarter of an hour and the
\* pass that removed the last world.
RunReturnedReached ==
    /\ loop.returned
    /\ loop.tick_count = 5

\* n calls of advance_tick on one clock.
RECURSIVE advance_ticks(_, _)
advance_ticks(c, n) ==
    IF n = 0 THEN c ELSE advance_ticks(advance_tick(c), n - 1)

\* The time the world's clock was created with: the parallel driver is also
\* started on a world that is two hours behind.
ClockStarts ==
    IF driver \in {"run", "simulate_until_condition", "direct"} THEN {StartTime}
    ELSE {StartTime - 120, StartTime}

\* C23: a world's clock changes only by whole ticks: after n ticks, of
\* advance_tick, advance_world or a driver's loop, current_time is the start
\* plus n * tick_duration_minutes and tick_count is n; tick_duration_minutes
\* keeps its value; ten ticks of 15 minutes from 09:00 give 11:30 and 10.
ClockCountsWholeTicks ==
    /\ clock.tick_duration_minutes = WorldClock(StartTime).tick_duration_minutes
    /\ clock.tick_count >= 0
    /\ \E start \in ClockStarts :
          clock.current_time = start + clock.tick_count * clock.tick_duration_minutes
    /\ pre.clock # clock => clock = advance_tick(pre.clock)
    /\ advance_ticks(WorldClock(9 * 60), 10)
          = [current_time |-> 11 * 60 + 30, tick_duration_minutes |-> 15,
             tick_count |-> 10]

\* run made the fourth tick of a world: its clock is at 10:00.
ClockFourTicksReached ==
    /\ last.op = "run"
    /\ clock.tick_count = 4
    /\ clock.current_time = 10 * 60

\* The operations that make one tick of the world.
WorldTicks ==
    {"run", "simulate_until_condition", "run_parallel_simulation", "advance_world"}

\* C24: within every tick of a world all its actors are processed before the
\* clock is advanced: the clock the actors are processed under in tick k is
\* the clock of the start of tick k.
ActorsProcessedBeforeClock ==
    last.op \in WorldTicks => last.seen = pre.clock

\* The three driver loops process the actors under the clock of the start of
\* the tick.
DriversProcessActorsBeforeClock ==
    last.op \in WorldTicks \ {"advance_world"} => last.seen = pre.clock

\* advance_world processed the actors of its second tick under the clock of
\* the end of that tick.
AdvanceWorldClockFirstReached ==
    /\ last.op = "advance_world"
    /\ pre.clock.tick_count = 1
    /\ last.seen = advance_tick(pre.clock)
    /\ last.seen = clock

\* Every actor in a world's dict carries the id of that world.
ActorsStamped(h) ==
    \A w \in WorldRefs(h) : \A a \in actor_refs(h, w) : h[a].world_id = h[w].world_id

\* C25: every actor stored in a world's actors map has the world_id of that
\* world, after any sequence of add_actor, remove_actor and fork_world.
ActorsCarryTheirWorldsId ==
    ActorsStamped(heap)

\* The calls keep the actors stamped, but for add_actor of an actor that
\* another world holds.
ActorsStayStampedUnlessShared ==
    [][(/\ ActorsStamped(heap)
        /\ ~(/\ ret'.fn = "add_actor(existing)"
             /\ \E w \in WorldRefs(heap) \ {ret'.world} :
                   ret'.actor \in actor_refs(heap, w)))
          => ActorsStamped(heap')]_vars

\* An actor of the main world was added to a fork: the main world still holds
\* it, under the fork's id.
ActorOfTwoWorldsReached ==
    /\ ret.fn = "add_actor(existing)"
    /\ \E w \in WorldRefs(heap) \ {ret.world} :
          /\ heap[w].world_id = MainId
          /\ ret.actor \in actor_refs(heap, w)
          /\ is_fork_id(heap[ret.actor].world_id)

\* add_actor moved a stamp: an actor that carried another id was given the id
\* of the world it was added to, and fork_world stamped its clones.
ActorRestampedReached ==
    /\ ret.fn = "add_actor(existing)"
    /\ ret.heap_before[ret.actor].world_id # heap[ret.actor].world_id
    /\ ActorsStamped(heap)
    /\ \E w \in WorldRefs(heap) : is_fork_id(heap[w].world_id)

\* The bundle the claim describes for a displacement in minutes: the base
\* values in the model's units, and the three adjustments, each on its own
\* condition.
JumpBundle(time_delta) ==
    LET magnitude == IF time_delta < 0 THEN -time_delta ELSE time_delta
        long == IF magnitude > 24 * 60 THEN 1 ELSE 0
        week == IF magnitude > 168 * 60 THEN 1 ELSE 0
        past == IF time_delta < 0 THEN 1 ELSE 0
    IN  [fatigue_delta |-> 150 + 100 * long + 200 * week + 50 * past,
         hunger_delta |-> 80,
         mood_delta |-> -50 - 30 * long - 50 * week - 20 * past,
         energy_delta |-> -200 - 300 * week,
         cash_delta |-> -50 - 25 * long - 15 * past,
         battery_delta |-> -100]

\* C26: calculate_time_jump_effects returns the base bundle plus the
\* independent adjustments for more than 24 h, more than 168 h and a negative
\* displacement; exactly 24 h gets no long-jump penalty, and a backward jump
\* has more fatigue and a lower mood delta than the forward jump of the same
\* magnitude.
JumpEffectsAreBasePlusAdjustments ==
    ret.fn = "calculate_time_jump_effects" =>
        /\ ret.value = JumpBundle(ret.time_delta)
        /\ ret.time_delta = 24 * 60 => ret.value = base_time_jump_effects(ret.time_delta)
        /\ ret.time_delta = -24 * 60 => ret.value = calculate_time_jump_effects(-60)
        /\ ret.time_delta < 0 =>
              /\ ret.value.fatigue_delta
                    > calculate_time_jump_effects(-ret.time_delta).fatigue_delta
              /\ ret.value.mood_delta
                    < calculate_time_jump_effects(-ret.time_delta).mood_delta

\* A backward jump of a week and a quarter of an hour got all three adjustments.
JumpEffectsAllAdjustmentsReached ==
    /\ ret.fn = "calculate_time_jump_effects"
    /\ ret.time_delta = -(168 * 60 + 15)
    /\ ret.value.fatigue_delta = 150 + 100 + 200 + 50
    /\ ret.value.mood_delta = -50 - 30 - 50 - 20

\* The two worlds of the last get_timeline_divergence differ in the time of
\* their clocks or in the state of an actor they share.
WorldsDiffer ==
    LET a == ret.world_a
        b == ret.world_b
    IN  \/ heap[heap[a].clock].current_time # heap[heap[b].clock].current_time
        \/ \E id \in DOMAIN heap[heap[a].actors].items
                       \cap DOMAIN heap[heap[b].actors].items :
              heap[heap[heap[a].actors].items[id]].state
                 # heap[heap[heap[b].actors].items[id]].state

\* What the claim says of one result: zero for a world and itself, positive
\* for worlds that differ, and at most 1.
DivergenceAsClaimed ==
    /\ ret.world_a = ret.world_b => ret.value.num = 0
    /\ (ret.world_a # ret.world_b /\ WorldsDiffer) => ret.value.num > 0
    /\ ret.value.num >= 0
    /\ ret.value.num <= ret.value.den

\* C27: get_timeline_divergence is 0 for a world compared with itself,
\* strictly positive for two worlds whose clock times differ or in which a
\* shared actor's state differs, and never more than 1.
DivergenceZeroPositiveCapped ==
    ret.fn = "get_timeline_divergence" => DivergenceAsClaimed

\* The same for worlds whose world_ids differ, and for a world and itself.
DivergenceOfWorldsWithOwnIds ==
    (/\ ret.fn = "get_timeline_divergence"
     /\ \/ ret.world_a = ret.world_b
        \/ heap[ret.world_a].world_id # heap[ret.world_b].world_id)
        => DivergenceAsClaimed

\* Two worlds of initialize_world, half a day apart, have divergence 0.
DivergenceOfTwoMainsZeroReached ==
    /\ ret.fn = "get_timeline_divergence"
    /\ ret.world_a # ret.world_b
    /\ heap[ret.world_a].world_id = MainId
    /\ heap[ret.world_b].world_id = MainId
    /\ absolute(heap[heap[ret.world_a].clock].current_time
                   - heap[heap[ret.world_b].clock].current_time) = 12 * 60
    /\ ret.value.num = 0

\* A world and its fork of thirty hours earlier: the time divergence is
\* capped at 1 and the mean stays below 1.
DivergenceOfForkReached ==
    /\ ret.fn = "get_timeline_divergence"
    /\ is_fork_id(heap[ret.world_b].world_id)
    /\ heap[heap[ret.world_a].clock].current_time
          - heap[heap[ret.world_b].clock].current_time = 30 * 60
    /\ ret.value.num > ret.value.den \div 2
    /\ ret.value.num < ret.value.den

\* The values the claim and the tests name, as input and factor: 0 -> 0.8,
\* 50 -> 1.0, 100 -> 1.2, -10 -> 0.8, 150 -> 1.2, 25 -> 0.9, 75 -> 1.1.
NamedLevelFactors ==
    {<< 0, 80000 >>, << 500, 100000 >>, << 1000, 120000 >>, << -100, 80000 >>,
     << 1500, 120000 >>, << 250, 90000 >>, << 750, 110000 >>}

NothingEligible(id) ==
    /\ pre.actors[id].current_ticks_left = 0
    /\ override_state(pre.actors[id], pre.clock) = "None"
    /\ get_available_actions(pre.actors[id], TRUE) = << >>

\* C29: in a tick of run, a ready actor without a calendar override and
\* without an eligible action raises no error and ends the tick Idle: an
\* actor that was not Idle becomes Idle, "no_actions_available", and an actor
\* that was Idle is unchanged.
NoEligibleActionEndsIdle ==
    \A id \in ActorIds :
        (last.op = "run" /\ NothingEligible(id)) =>
            /\ last.ok
            /\ actors[id].state = "Idle"
            /\ actors[id] = IF pre.actors[id].state # "Idle"
                            THEN [pre.actors[id] EXCEPT !.state = "Idle",
                                                        !.substate = "no_actions_available"]
                            ELSE pre.actors[id]

\* A sleeping actor without an eligible action was made Idle by a tick of run.
NoEligibleActionForcedIdleReached ==
    \E id \in ActorIds :
        /\ last.op = "run"
        /\ NothingEligible(id)
        /\ pre.actors[id].state = "Sleeping"
        /\ actors[id].state = "Idle"
        /\ actors[id].substate = "no_actions_available"

\* The loops of simulator.py, which change an actor's state at most once in
\* a turn when apply_action succeeds.
DriverTicks ==
    {"run", "simulate_until_condition", "run_parallel_simulation"}

\* The changes of state the tick engine makes in one _process_actor_tick, one
\* after the other: _handle_state_logic, then _check_automatic_transitions.
TickEngineChangesPermitted(actor) ==
    LET a1 == _update_actor_resources(actor)
    IN  \A s \in _handle_state_logic(a1) :
           /\ s # a1.state => can_transition(a1.state, s)
           /\ LET a2 == [a1 EXCEPT !.state = s]
                  a3 == _check_automatic_transitions(a2)
              IN  a3.state # a2.state => can_transition(a2.state, a3.state)

\* C30: every change of an actor's state during a tick, by a chosen action,
\* a calendar-forced action, a forced-Idle fallback or the tick engine's
\* state logic, is a transition can_transition permits from the state before
\* the change.
StateChangesArePermitted ==
    \A id \in ActorIds :
        /\ (last.op \in DriverTicks /\ actors[id].state # pre.actors[id].state)
              => can_transition(pre.actors[id].state, actors[id].state)
        /\ last.op = "advance_world" => TickEngineChangesPermitted(pre.actors[id])

\* The tick engine's half of it.
TickEngineStateChangesArePermitted ==
    \A id \in ActorIds :
        last.op = "advance_world" => TickEngineChangesPermitted(pre.actors[id])

\* run applied a chosen action to a sleeping actor and left it in a state
\* that Sleeping may not move to.
SleeperMovedByActionReached ==
    \E id \in ActorIds :
        /\ last.op = "run"
        /\ last.branch[id] = "probability_selected"
        /\ pre.actors[id].state = "Sleeping"
        /\ actors[id].state \notin {"Sleeping", "Waking_Up", "Transitioning"}

\* advance_world moved an actor from Waking_Up to Idle.
TickEngineWokeReached ==
    \E id \in ActorIds :
        /\ last.op = "advance_world"
        /\ pre.actors[id].state = "Waking_Up"
        /\ actors[id].state = "Idle"

\* ------------------------------------------------------------------ claims C31..

\* The actor as _handle_state_logic reads it in advance_world: after
\* _update_actor_resources.
AsIdleDecisionReads(id) ==
    _update_actor_resources(pre.actors[id])

BothNeeds(actor) ==
    actor.state = "Idle" /\ actor.hunger > 700 /\ actor.fatigue > 800

HigherPriority(s, t) ==
    IF get_state_priority(s) >= get_state_priority(t) THEN s ELSE t

\* C31: an Idle actor that is hungry (hunger > 70) and tired (fatigue > 80) at
\* once is sent by the tick engine's idle decision to the need of the higher
\* get_state_priority, Sleeping (9), not to Eating (8).
IdleTieGoesToHigherPriority ==
    \A id \in ActorIds :
        (last.op = "advance_world" /\ BothNeeds(AsIdleDecisionReads(id)))
            => /\ _handle_idle_decisions(AsIdleDecisionReads(id))
                     = {HigherPriority("Sleeping", "Eating")}
               /\ actors[id].state = "Sleeping"

\* What the idle decision does with both needs: hunger is tested first.
IdleTieGoesToEating ==
    \A id \in ActorIds :
        (last.op = "advance_world" /\ BothNeeds(AsIdleDecisionReads(id)))
            => _handle_idle_decisions(AsIdleDecisionReads(id)) = {"Eating"}

\* advance_world left an actor with both needs in Eating.
IdleTieEndedEatingReached ==
    \E id \in ActorIds :
        /\ last.op = "advance_world"
        /\ BothNeeds(AsIdleDecisionReads(id))
        /\ actors[id].fatigue < 950
        /\ actors[id].state = "Eating"

ForkAttempted ==
    /\ last.op = "run_parallel_simulation"
    /\ \E id \in ActorIds : last.branch[id] \in {"forked", "fork_failed"}

TickCompleted ==
    /\ driver = "run_parallel_simulation"
    /\ clock = advance_tick(pre.clock)

\* C32: a tick of run_parallel_simulation in which a time-jump fork was
\* attempted is completed whether create_fork succeeded or raised: the loop
\* is not aborted, advance_all_worlds runs and the following ticks can run.
ForkAttemptDoesNotAbortTick ==
    ForkAttempted => TickCompleted

\* The half of it about a create_fork that raised.
FailedForkDoesNotAbortTick ==
    (ForkAttempted /\ \A id \in ActorIds : last.branch[id] # "forked")
        => TickCompleted

\* A fork was created while the worlds were iterated, and the loop stopped
\* before advance_all_worlds.
ForkAbortedRunReached ==
    /\ last.op = "run_parallel_simulation"
    /\ \E id \in ActorIds : last.branch[id] = "forked"
    /\ driver = "raised"
    /\ clock = pre.clock

\* A create_fork that raised was caught and the tick went on.
FailedForkTickCompletedReached ==
    /\ ForkAttempted
    /\ \E id \in ActorIds : last.branch[id] = "fork_failed"
    /\ TickCompleted

\* The tick count the fork would have with the ticks-per-hour ratio of the
\* source's clock.
TicksAtGranularity(src_clock, time_delta) ==
    Max(0, src_clock.tick_count
              + trunc_div(time_delta, src_clock.tick_duration_minutes))

ForkReturned ==
    ret.fn = "fork_world" /\ ~ret.raised

\* C33: the fork's tick count is the source's plus the displacement in ticks
\* of the clock's own tick_duration_minutes (2 per hour for 30-minute ticks),
\* and never negative.
ForkTickCountFollowsGranularity ==
    ForkReturned =>
        LET src_clock == ret.heap_before[ret.heap_before[ret.src_world].clock]
            fork_clock_after == heap[heap[ret.value].clock]
        IN  /\ fork_clock_after.tick_count
                  = TicksAtGranularity(src_clock, ret.target_time - src_clock.current_time)
            /\ fork_clock_after.tick_count >= 0

\* What holds: the claim for 15-minute ticks, and four ticks per hour and a
\* count that is not negative for every clock.
ForkTickCountFourPerHour ==
    ForkReturned =>
        LET src_clock == ret.heap_before[ret.heap_before[ret.src_world].clock]
            fork_clock_after == heap[heap[ret.value].clock]
            time_delta == ret.target_time - src_clock.current_time
        IN  /\ fork_clock_after.tick_count
                  = Max(0, src_clock.tick_count + trunc_div(4 * time_delta, 60))
            /\ fork_clock_after.tick_count >= 0
            /\ fork_clock_after.tick_duration_minutes = src_clock.tick_duration_minutes
            /\ src_clock.tick_duration_minutes = 15
                  => fork_clock_after.tick_count
                        = TicksAtGranularity(src_clock, time_delta)

\* A world of 30-minute ticks was forked six hours ahead and the fork counts
\* 24 ticks more than its source.
ForkOfHalfHourClockReached ==
    /\ ForkReturned
    /\ heap[heap[ret.value].clock].tick_duration_minutes = 30
    /\ ret.target_time - ret.heap_before[ret.heap_before[ret.src_world].clock].current_time
          = 6 * 60
    /\ heap[heap[ret.value].clock].tick_count
          = ret.heap_before[ret.heap_before[ret.src_world].clock].tick_count + 24

\* The work action's checks that do not read the location.
WorkAdmitted(actor) ==
    mood_ok(START_WORK, actor) /\ bounds_ok(START_WORK, actor) /\ cash_ok(START_WORK, actor)

\* run decided for an actor whose calendar override was Focused_Work and
\* whose resources admit the work action.
WorkForced(id) ==
    /\ last.op = "run"
    /\ pre.actors[id].current_ticks_left = 0
    /\ override_state(pre.actors[id], pre.clock) = "Focused_Work"
    /\ WorkAdmitted(pre.actors[id])

\* C34: the scheduler and the catalog agree on where work can be done: when
\* override_state returns Focused_Work (the actor is at the office or at any
\* home) and mood, hunger, fatigue and cash admit the work action, the forced
\* lookup finds it and the actor is in Focused_Work after the tick, not in
\* the "calendar_conflict" Idle fallback.
WorkLocationPredicateUniform ==
    \A id \in ActorIds :
        WorkForced(id) =>
            /\ lookup_forced("Focused_Work", pre.actors[id], TRUE) = << START_WORK >>
            /\ last.branch[id] = "calendar_forced"
            /\ actors[id].state = "Focused_Work"

\* The same for the locations the catalog lists: the office and home_a..home_f.
WorkForcedAtListedLocations ==
    \A id \in ActorIds :
        (WorkForced(id) /\ location_ok(START_WORK, pre.actors[id])) =>
            /\ lookup_forced("Focused_Work", pre.actors[id], TRUE) = << START_WORK >>
            /\ last.branch[id] = "calendar_forced"
            /\ actors[id].state = "Focused_Work"

\* An actor at home_g whose block requires work ended the tick in the
\* "calendar_conflict" fallback.
WorkAtHomeGConflictReached ==
    \E id \in ActorIds :
        /\ WorkForced(id)
        /\ pre.actors[id].location_id = "home_g"
        /\ last.branch[id] = "calendar_conflict"
        /\ actors[id].state = "Idle"
        /\ actors[id].substate = "calendar_conflict"

\* run decided for an actor inside a calendar block with fatigue >= 95.
FatigueEscape(id) ==
    /\ last.op = "run"
    /\ pre.actors[id].current_ticks_left = 0
    /\ get_current_time_block(pre.actors[id], pre.clock.current_time) # 0
    /\ pre.actors[id].fatigue >= 950

\* C35: when the fatigue >= 95 escape makes override_state return Idle
\* inside an active block, the actor's action is chosen by the probabilistic
\* layer, which can pick a sleep action.
FatigueEscapeLeavesChoiceToProbability ==
    \A id \in ActorIds :
        FatigueEscape(id) =>
            /\ override_state(pre.actors[id], pre.clock) = "Idle"
            /\ last.branch[id] \in {"probability_selected", "no_actions"}

\* What run does with the escape: Idle is treated as the state the calendar
\* forces, and the actor is Idle after the tick, never Sleeping.
FatigueEscapeForcesIdle ==
    \A id \in ActorIds :
        FatigueEscape(id) =>
            /\ override_state(pre.actors[id], pre.clock) = "Idle"
            /\ \/ last.branch[id] = "calendar_forced" /\ last.action[id] = STAY_IDLE.name
               \/ last.branch[id] = "calendar_conflict"
            /\ actors[id].state = "Idle"

\* An exhausted actor at home, for whom "Go to Sleep" passes every check, was
\* forced to stay idle inside its block.
ExhaustedForcedIdleReached ==
    \E id \in ActorIds :
        /\ FatigueEscape(id)
        /\ available_keeps(GO_TO_SLEEP, pre.actors[id], TRUE)
        /\ last.branch[id] = "calendar_forced"
        /\ last.action[id] = STAY_IDLE.name
        /\ actors[id].state = "Idle"

\* The required states whose location override_state checks.
LocationCheckedStates ==
    {"Focused_Work", "In_Meeting", "Exercising", "Shopping", "Socialising"}

RequiredState(actor, current_time) ==
    actor.calendar[get_current_time_block(actor, current_time)].required_state

\* A tick of run found the actor inside a block of a location-checked state,
\* away from the locations that state is accepted at.
AwayFromRequiredLocation(id) ==
    /\ last.op = "run"
    /\ get_current_time_block(pre.actors[id], pre.clock.current_time) # 0
    /\ RequiredState(pre.actors[id], pre.clock.current_time) \in LocationCheckedStates
    /\ pre.actors[id].location_id
          \notin QualifyingLocations(RequiredState(pre.actors[id], pre.clock.current_time))

\* C36: in run, an actor that is away from the qualifying locations of an
\* active block's required state stays where it is: no tick of the block
\* changes its location_id (the forced actions "Start Transition" and "Stay
\* Idle" have no destination), override_state does not return the required
\* state and the actor is not in the required state after the tick.
AwayActorNeverReachesRequiredState ==
    \A id \in ActorIds :
        AwayFromRequiredLocation(id) =>
            LET required == RequiredState(pre.actors[id], pre.clock.current_time)
            IN  /\ actors[id].location_id = pre.actors[id].location_id
                /\ override_state(pre.actors[id], pre.clock) \in {"Transitioning", "Idle"}
                /\ override_state(pre.actors[id], pre.clock) # required
                /\ actors[id].state # required
                /\ last.branch[id] \in {"busy", "calendar_forced", "calendar_conflict"}
                /\ last.branch[id] = "calendar_forced"
                      => last.action[id] \in {START_TRANSITION.name, STAY_IDLE.name}

\* An actor in the park during its work block was forced to "Start
\* Transition" and is still in the park.
AwayActorTransitionedInPlaceReached ==
    \E id \in ActorIds :
        /\ AwayFromRequiredLocation(id)
        /\ RequiredState(pre.actors[id], pre.clock.current_time) = "Focused_Work"
        /\ last.branch[id] = "calendar_forced"
        /\ last.action[id] = START_TRANSITION.name
        /\ actors[id].state = "Transitioning"
        /\ actors[id].location_id = pre.actors[id].location_id

CoreOnlyTicks ==
    {"run", "simulate_until_condition"}

\* The destinations of the core actions.
CoreDestinations ==
    {CORE_ACTIONS[i].next_location : i \in 1..Len(CORE_ACTIONS)} \ {"None"}

\* C37: in the core-only drivers an actor that is away from home stays away
\* from home: the core actions lead to public_office, public_park and
\* public_coffee_shop only ("Drive Home" has no destination), and the actor
\* never takes "Go to Sleep" again.
AwayFromHomeForGood ==
    \A id \in ActorIds :
        (last.op \in CoreOnlyTicks /\ ~startswith_home(pre.actors[id].location_id))
            => /\ ~startswith_home(actors[id].location_id)
               /\ actors[id].location_id
                     \in {pre.actors[id].location_id} \cup CoreDestinations
               /\ last.action[id] # GO_TO_SLEEP.name

\* The destinations the claim names.
CoreDestinationsAreThree ==
    CoreDestinations = {"public_office", "public_park", "public_coffee_shop"}

\* An actor at the office took "Drive Home" and is still at the office.
DroveHomeStillAtOfficeReached ==
    \E id \in ActorIds :
        /\ last.op \in CoreOnlyTicks
        /\ pre.actors[id].location_id = "public_office"
        /\ last.action[id] = DRIVE_HOME.name
        /\ actors[id].state = "Driving"
        /\ actors[id].location_id = "public_office"

ManagerCalls ==
    {"add_world", "add_actor(existing)", "remove_world", "create_fork",
     "prune_inactive_forks", "advance_all_worlds"}

MainIsManaged(m) ==
    m.main_world_id # NoWorldId => dict_has(m.worlds, m.main_world_id)

\* C38: once main_world_id is set it is a key of worlds, after any sequence
\* of add_world, remove_world, create_fork and prune_inactive_forks.
MainWorldStaysManaged ==
    MainIsManaged(manager)

\* The calls other than remove_world keep it: add_world, create_fork and
\* prune_inactive_forks leave a managed main world managed.
MainWorldKeptByOtherCalls ==
    (ret.fn \in ManagerCalls \ {"remove_world"} /\ MainIsManaged(ret.manager_before))
        => MainIsManaged(manager)

\* remove_world was called with the main world's id, and main_world_id still
\* names it.
MainWorldRemovedReached ==
    /\ ret.fn = "remove_world"
    /\ ret.world_id = ret.manager_before.main_world_id
    /\ manager.main_world_id = ret.world_id
    /\ dict_has(ret.manager_before.worlds, ret.world_id)
    /\ ~dict_has(manager.worlds, ret.world_id)

HistoryKeysManaged(m) ==
    \A k \in DOMAIN m.fork_history : dict_has(m.worlds, k)

HistoryForksManaged(m) ==
    \A k \in DOMAIN m.fork_history :
        \A i \in 1..Len(m.fork_history[k]) : dict_has(m.worlds, m.fork_history[k][i])

\* C39: after any sequence of add_world, create_fork, remove_world and
\* prune_inactive_forks, every key of fork_history and every fork id listed
\* in an entry of fork_history is a key of worlds.
LineageNamesManagedWorlds ==
    HistoryKeysManaged(manager) /\ HistoryForksManaged(manager)

\* The half about the keys, and the calls that keep the listed ids managed.
LineageKeysManaged ==
    /\ HistoryKeysManaged(manager)
    /\ (ret.fn \in {"add_world", "create_fork"} /\ HistoryForksManaged(ret.manager_before))
          => HistoryForksManaged(manager)

\* A fork was removed and its source's entry of fork_history still lists it.
RemovedForkStillListedReached ==
    /\ ret.fn = "remove_world"
    /\ is_fork_id(ret.world_id)
    /\ ~dict_has(manager.worlds, ret.world_id)
    /\ \E k \in DOMAIN manager.fork_history : in_list(manager.fork_history[k], ret.world_id)

\* C40: a start request that arrives while a run is active is rejected
\* with HTTP 400, so that under every interleaving of start requests, stop
\* requests and background-task steps at most one background simulation loop
\* is running.
AtMostOneLoopRunning ==
    Cardinality(LoopsRunning(api)) <= 1

\* The rejection itself: a start request that finds the flag set is answered
\* 400 and adds no task.
StartRejectedWhileFlagSet ==
    [][(last'.op = "start_simulation" /\ api.simulation_running)
          => (api'.response = "400" /\ api'.tasks = api.tasks)]_vars

\* Two loops are running and the flag is set.
TwoLoopsRunningReached ==
    /\ Cardinality(LoopsRunning(api)) = 2
    /\ api.simulation_running

\* A start request was rejected while a loop was running.
StartRejectedReached ==
    /\ last.op = "start_simulation"
    /\ api.response = "400"
    /\ LoopsRunning(api) # {}

====
